---- MODULE Spec2Model ----
(***************************************************************************)
(* The invoice financing server (supabase/functions/server/index.tsx): the *)
(* key-value store it writes, and its request handlers as interleaved      *)
(* processes, one step per store operation a handler awaits.               *)
(*                                                                         *)
(* Conventions of the model:                                               *)
(*  - a UUID is a natural number; crypto.randomUUID() draws the next one;  *)
(*  - time is counted in ticks, TicksPerDay ticks to the day; a calendar   *)
(*    date string 'YYYY-MM-DD' is the number of its day;                   *)
(*  - a percentage is held in tenths of a percent (2.5% is 25, 90% is 900);*)
(*  - a JSON object is a record; a field that is undefined is a field that *)
(*    is not in the record's DOMAIN.                                       *)
(***************************************************************************)
EXTENDS Integers, Sequences, FiniteSets, TLC

VARIABLES
    kv,          \* the key-value store: key -> stored JSON value
    req,         \* the request slots: each one handler invocation in flight
    nextId,      \* the next UUID crypto.randomUUID() returns
    now,         \* Date.now(), in ticks
    settledFrom, \* history: settlement id -> id of the advance MarkPaid read
    ui           \* the browser: the screen shown and what it computed

vars == <<kv, req, nextId, now, settledFrom, ui>>

----------------------------------------------------------------------------
(* Bounds of the model *)

NumReq == 2          \* request slots: handlers that may be in flight at once
MaxIds == 3          \* UUIDs drawn by the handlers in one behaviour
MaxTicks == 1        \* ticks the clock advances in one behaviour

----------------------------------------------------------------------------
(* Program constants *)

DEFAULT_USER_ID == "demo-user-123"
TicksPerDay == 2
PercentScale == 1000         \* percent in tenths: x% of a is a * x / 1000
BootTime == 200              \* Date.now() when the server starts
FirstRuntimeId == 9          \* createSampleData drew UUIDs 1..8
UnknownId == 0               \* a UUID the server never drew

Slots == 1..NumReq

InvoicePrefix == "invoice:"
AdvancePrefix == "advance:"
SettlementPrefix == "settlement:"
UserInvoicePrefix == "user:demo-user-123:invoice:"
UserAdvancePrefix == "user:demo-user-123:advance:"
UserSettlementPrefix == "user:demo-user-123:settlement:"

OfferFields == {"advancePercent", "feePercent", "advanceAmount"}

----------------------------------------------------------------------------
(* Arithmetic and dates *)

FloorDiv(a, b) == a \div b

CeilDiv(a, b) == -((-a) \div b)

\* new Date(t).toISOString().split('T')[0]: the calendar day of an instant
DateOf(t) == t \div TicksPerDay

\* new Date(dateString).getTime(): midnight of that day
TimeOfDate(d) == d * TicksPerDay

----------------------------------------------------------------------------
(* JSON objects *)

Restrict(r, S) == [f \in (DOMAIN r) \cap S |-> r[f]]

Without(r, S) == [f \in (DOMAIN r) \ S |-> r[f]]

\* { ...a, ...b } serialised: b's fields override a's
Spread(a, b) == b @@ a

Has(r, f) == f \in DOMAIN r

----------------------------------------------------------------------------
(* The key-value store (kv_store.tsx): keys are prefix + id *)

Key(prefix, id) == <<prefix, id>>

KvHas(store, prefix, id) == Key(prefix, id) \in DOMAIN store

KvSet(store, prefix, id, value) ==
    [k \in (DOMAIN store) \cup {Key(prefix, id)} |->
        IF k = Key(prefix, id) THEN value ELSE store[k]]

KvIds(store, prefix) == {k[2] : k \in {x \in DOMAIN store : x[1] = prefix}}

Empty == [f \in {} |-> 0]

----------------------------------------------------------------------------
(* createSampleData: what the server stores when it starts on an empty store *)

SampleAdvances ==
    { [id |-> 1, invoiceId |-> 2, userId |-> DEFAULT_USER_ID,
       filename |-> "INV-2024-001.pdf", buyer |-> "Acme Corp",
       invoiceAmount |-> 25000, advanceAmount |-> 22500, feePercent |-> 25,
       dueDate |-> DateOf(BootTime + 30 * TicksPerDay), status |-> "active",
       createdAt |-> BootTime - 5 * TicksPerDay, riskBand |-> "low"],
      [id |-> 3, invoiceId |-> 4, userId |-> DEFAULT_USER_ID,
       filename |-> "INV-2024-002.pdf", buyer |-> "TechStart Inc",
       invoiceAmount |-> 18000, advanceAmount |-> 15300, feePercent |-> 30,
       dueDate |-> DateOf(BootTime + 45 * TicksPerDay), status |-> "active",
       createdAt |-> BootTime - 3 * TicksPerDay, riskBand |-> "medium"] }

SampleSettlements ==
    { [id |-> 5, invoiceId |-> 6, userId |-> DEFAULT_USER_ID,
       filename |-> "INV-2024-003.pdf", buyer |-> "Global Solutions LLC",
       invoiceAmount |-> 35000, advanceAmount |-> 31500, feeAmount |-> 875,
       feePercent |-> 25, remainingAmount |-> 2625, settlementAmount |-> 2625,
       paidDate |-> BootTime - 2 * TicksPerDay,
       createdAt |-> BootTime - 30 * TicksPerDay, riskBand |-> "low",
       daysToPay |-> 28],
      [id |-> 7, invoiceId |-> 8, userId |-> DEFAULT_USER_ID,
       filename |-> "INV-2024-004.pdf", buyer |-> "Enterprise Ltd",
       invoiceAmount |-> 42000, advanceAmount |-> 33600, feeAmount |-> 1470,
       feePercent |-> 35, remainingAmount |-> 6930, settlementAmount |-> 6930,
       paidDate |-> BootTime - 7 * TicksPerDay,
       createdAt |-> BootTime - 60 * TicksPerDay, riskBand |-> "high",
       daysToPay |-> 53] }

SampleStore ==
    [k \in {Key(AdvancePrefix, a.id) : a \in SampleAdvances}
        \cup {Key(UserAdvancePrefix, a.id) : a \in SampleAdvances}
        \cup {Key(SettlementPrefix, s.id) : s \in SampleSettlements}
        \cup {Key(UserSettlementPrefix, s.id) : s \in SampleSettlements} |->
        IF k[1] = AdvancePrefix
        THEN CHOOSE a \in SampleAdvances : a.id = k[2]
        ELSE IF k[1] = SettlementPrefix
        THEN CHOOSE s \in SampleSettlements : s.id = k[2]
        ELSE k[2]]

----------------------------------------------------------------------------
(* Request slots *)

\* the browser when the app opens: the dashboard, no invoice selected
Dashboard == [screen |-> "dashboard"]

Idle == [op |-> "idle", pc |-> "idle", param |-> UnknownId, body |-> Empty,
         local |-> Empty, status |-> 0]

Done(r, code) == [r EXCEPT !.pc = "done", !.status = code]

CanDraw == nextId < FirstRuntimeId + MaxIds

\* a new request takes the lowest free slot (the slots are interchangeable)
Free(p) == req[p].pc = "idle" /\ \A q \in Slots : q < p => req[q].pc # "idle"

Init ==
    /\ kv = SampleStore
    /\ req = [p \in Slots |-> Idle]
    /\ nextId = FirstRuntimeId
    /\ now = BootTime
    /\ settledFrom = Empty
    /\ ui = Dashboard

Tick ==
    /\ now < BootTime + MaxTicks
    /\ now' = now + 1
    /\ UNCHANGED <<kv, req, nextId, settledFrom, ui>>

\* the response has been delivered: the slot is free again
Respond(p) ==
    /\ req[p].pc = "done"
    /\ req' = [req EXCEPT ![p] = Idle]
    /\ UNCHANGED <<kv, nextId, now, settledFrom, ui>>

----------------------------------------------------------------------------
(* POST /invoices: create an invoice from manually entered fields *)

IngestFields == {"filename", "amount", "buyer", "dueDate", "riskBand"}

\* !x of JavaScript for a field of the request body: undefined, '' and 0
Falsy(body, f) ==
    \/ ~Has(body, f)
    \/ IF f \in {"amount", "dueDate"} THEN body[f] = 0 ELSE body[f] = ""

\* the request bodies a caller sends: a complete one, and the same with each
\* field in turn left out, or with a zero amount
CompleteBody ==
    [filename |-> "INV-A.pdf", amount |-> 25000, buyer |-> "Acme Corp",
     dueDate |-> DateOf(BootTime) + 59, riskBand |-> "low"]

IngestBodies ==
    {CompleteBody}
        \cup {Without(CompleteBody, {f}) : f \in IngestFields}
        \cup {[CompleteBody EXCEPT !.amount = 0]}

\* a faulty variant: tests the fields for undefined only, so that a zero
\* amount passes
IngestValidDefinedOnly(body) == \A f \in IngestFields : Has(body, f)

IngestValid(body) == \A f \in IngestFields : ~Falsy(body, f)

NewInvoice(id, body, t) ==
    [id |-> id, userId |-> DEFAULT_USER_ID, filename |-> body.filename,
     amount |-> body.amount, buyer |-> body.buyer, dueDate |-> body.dueDate,
     riskBand |-> body.riskBand, status |-> "uploaded", createdAt |-> t]

\* lines 196-217: read the body, validate, draw the id and build the invoice
IngestStart(p, body) ==
    /\ Free(p)
    /\ IF IngestValid(body)
       THEN /\ CanDraw
            /\ req' = [req EXCEPT ![p] =
                   [op |-> "ingest", pc |-> "set_invoice", param |-> nextId,
                    body |-> body,
                    local |-> [invoice |-> NewInvoice(nextId, body, now)],
                    status |-> 0]]
            /\ nextId' = nextId + 1
       ELSE /\ req' = [req EXCEPT ![p] =
                   Done([Idle EXCEPT !.op = "ingest", !.body = body], 400)]
            /\ UNCHANGED nextId
    /\ UNCHANGED <<kv, now, settledFrom, ui>>

\* a faulty variant: the index entry is written first
IngestSetInvoiceIndexFirst(p) ==
    /\ req[p].op = "ingest" /\ req[p].pc = "set_invoice"
    /\ kv' = KvSet(kv, UserInvoicePrefix, req[p].param, req[p].param)
    /\ req' = [req EXCEPT ![p].pc = "set_index"]
    /\ UNCHANGED <<nextId, now, settledFrom, ui>>

\* line 220
IngestSetInvoice(p) ==
    /\ req[p].op = "ingest" /\ req[p].pc = "set_invoice"
    /\ kv' = KvSet(kv, InvoicePrefix, req[p].param, req[p].local.invoice)
    /\ req' = [req EXCEPT ![p].pc = "set_index"]
    /\ UNCHANGED <<nextId, now, settledFrom, ui>>

\* lines 221-224
IngestSetIndex(p) ==
    /\ req[p].op = "ingest" /\ req[p].pc = "set_index"
    /\ kv' = KvSet(kv, UserInvoicePrefix, req[p].param, req[p].param)
    /\ req' = [req EXCEPT ![p] = Done(req[p], 200)]
    /\ UNCHANGED <<nextId, now, settledFrom, ui>>

----------------------------------------------------------------------------
(* GenkitAIService (genkit-service.tsx).  A ratio is held in hundredths and *)
(* a risk score in units of 10^-8: the base score in hundredths times      *)
(* three ratios in hundredths.                                             *)

ScoreUnit == 100000000

\* the draws of Math.random() the model follows: <<amount, payment terms>>
\* for the extraction, <<buyerProfile, paymentHistory, industryRisk>> for
\* the risk factors
ExtractionDraws == {<<20000, 30>>}

FactorDraws == {<<99, 99, 89>>}

simulateGenkitExtraction(filename, draw, t) ==
    [buyer |-> "Acme Corporation", amount |-> draw[1], currency |-> "USD",
     issueDate |-> DateOf(t),
     dueDate |-> DateOf(t + draw[2] * TicksPerDay),
     paymentTerms |-> draw[2]]

processInvoiceDocument(filename, draw, t) ==
    [success |-> TRUE,
     extractedData |-> simulateGenkitExtraction(filename, draw, t),
     confidence |-> 95]

calculateRiskFactors(invoiceData, draw, t) ==
    [amount |-> invoiceData.amount,
     daysToDue |-> CeilDiv(TimeOfDate(invoiceData.dueDate) - t, TicksPerDay),
     buyerProfile |-> draw[1], invoiceAge |-> 0,
     paymentHistory |-> draw[2], industryRisk |-> draw[3]]

Max(a, b) == IF a >= b THEN a ELSE b

Min(a, b) == IF a <= b THEN a ELSE b

\* a faulty variant: the score is returned as computed, without the clamp
calculateRiskScoreUnclamped(factors) ==
    LET base == 80
        s1 == IF factors.amount > 50000 THEN base - 10
              ELSE IF factors.amount > 30000 THEN base - 5 ELSE base
        s2 == IF factors.daysToDue > 60 THEN s1 - 10
              ELSE IF factors.daysToDue > 45 THEN s1 - 5 ELSE s1
    IN  s2 * factors.buyerProfile * factors.paymentHistory
            * factors.industryRisk

\* lines 141-163
calculateRiskScore(factors) ==
    LET base == 80
        s1 == IF factors.amount > 50000 THEN base - 10
              ELSE IF factors.amount > 30000 THEN base - 5 ELSE base
        s2 == IF factors.daysToDue > 60 THEN s1 - 10
              ELSE IF factors.daysToDue > 45 THEN s1 - 5 ELSE s1
        score == s2 * factors.buyerProfile * factors.paymentHistory
                    * factors.industryRisk
    IN  Max(ScoreUnit \div 10, Min(ScoreUnit, score))

\* a faulty variant: the thresholds are one band lower
determineRiskBandLenient(riskScore) ==
    IF riskScore * 10 >= 6 * ScoreUnit THEN "low"
    ELSE IF riskScore * 10 >= 4 * ScoreUnit THEN "medium"
    ELSE "high"

\* lines 165-169
determineRiskBand(riskScore) ==
    IF riskScore * 10 >= 8 * ScoreUnit THEN "low"
    ELSE IF riskScore * 10 >= 6 * ScoreUnit THEN "medium"
    ELSE "high"

generateRecommendation(riskBand) ==
    IF riskBand = "low" THEN [advancePercent |-> 900, feePercent |-> 25]
    ELSE IF riskBand = "medium" THEN [advancePercent |-> 850, feePercent |-> 30]
    ELSE [advancePercent |-> 800, feePercent |-> 35]

assessInvoiceRisk(invoiceData, draw, t) ==
    LET riskFactors == calculateRiskFactors(invoiceData, draw, t)
        riskScore == calculateRiskScore(riskFactors)
        riskBand == determineRiskBand(riskScore)
    IN  [success |-> TRUE, riskScore |-> riskScore, riskBand |-> riskBand,
         riskFactors |-> riskFactors,
         recommendation |-> generateRecommendation(riskBand)]

----------------------------------------------------------------------------
(* POST /invoices/process-ai: create an invoice from an uploaded document *)

\* the multipart bodies a caller sends: with a file, and without one
UploadBodies == {[file |-> "scan.pdf"], Empty}

NewAIInvoice(id, filename, aiResult, riskAssessment, t) ==
    [id |-> id, userId |-> DEFAULT_USER_ID, filename |-> filename,
     amount |-> aiResult.extractedData.amount,
     buyer |-> aiResult.extractedData.buyer,
     dueDate |-> aiResult.extractedData.dueDate,
     riskBand |-> riskAssessment.riskBand, status |-> "uploaded",
     createdAt |-> t,
     aiProcessing |-> [confidence |-> aiResult.confidence,
                       extractedData |-> aiResult.extractedData,
                       riskAssessment |-> riskAssessment]]

\* lines 134-147: read the form, reject a request without a file
ProcessAIStart(p, body) ==
    /\ Free(p)
    /\ req' = [req EXCEPT ![p] =
           IF Has(body, "file")
           THEN [Idle EXCEPT !.op = "processAI", !.pc = "extract", !.body = body]
           ELSE Done([Idle EXCEPT !.op = "processAI", !.body = body], 400)]
    /\ UNCHANGED <<kv, nextId, now, settledFrom, ui>>

\* lines 150-154
ProcessAIExtract(p, draw) ==
    /\ req[p].op = "processAI" /\ req[p].pc = "extract"
    /\ req' = [req EXCEPT ![p].pc = "assess",
                          ![p].local = [aiResult |->
                              processInvoiceDocument(req[p].body.file, draw, now)]]
    /\ UNCHANGED <<kv, nextId, now, settledFrom, ui>>

\* lines 150-154 and genkit-service.tsx 34-41: the extraction threw inside the
\* service, which reports it; the handler answers 500
ProcessAIExtractFails(p) ==
    /\ req[p].op = "processAI" /\ req[p].pc = "extract"
    /\ req' = [req EXCEPT ![p] =
           Done([req[p] EXCEPT !.local = [aiResult |-> [success |-> FALSE]]],
                500)]
    /\ UNCHANGED <<kv, nextId, now, settledFrom, ui>>

\* lines 157-161 and genkit-service.tsx 117-125: the assessment threw inside
\* the service, which reports it; the handler answers 500
ProcessAIAssessFails(p) ==
    /\ req[p].op = "processAI" /\ req[p].pc = "assess"
    /\ req' = [req EXCEPT ![p] =
           Done([req[p] EXCEPT !.local = Spread(req[p].local,
                    [riskAssessment |-> [success |-> FALSE]])], 500)]
    /\ UNCHANGED <<kv, nextId, now, settledFrom, ui>>

\* lines 157-181
ProcessAIAssess(p, draw) ==
    /\ req[p].op = "processAI" /\ req[p].pc = "assess"
    /\ CanDraw
    /\ LET aiResult == req[p].local.aiResult
           riskAssessment == assessInvoiceRisk(aiResult.extractedData, draw, now)
       IN  req' = [req EXCEPT ![p].pc = "set_invoice", ![p].param = nextId,
                       ![p].local = [invoice |->
                           NewAIInvoice(nextId, req[p].body.file, aiResult,
                                        riskAssessment, now)]]
    /\ nextId' = nextId + 1
    /\ UNCHANGED <<kv, now, settledFrom, ui>>

\* line 183
ProcessAISetInvoice(p) ==
    /\ req[p].op = "processAI" /\ req[p].pc = "set_invoice"
    /\ kv' = KvSet(kv, InvoicePrefix, req[p].param, req[p].local.invoice)
    /\ req' = [req EXCEPT ![p].pc = "set_index"]
    /\ UNCHANGED <<nextId, now, settledFrom, ui>>

\* lines 184-186
ProcessAISetIndex(p) ==
    /\ req[p].op = "processAI" /\ req[p].pc = "set_index"
    /\ kv' = KvSet(kv, UserInvoicePrefix, req[p].param, req[p].param)
    /\ req' = [req EXCEPT ![p] = Done(req[p], 200)]
    /\ UNCHANGED <<nextId, now, settledFrom, ui>>

----------------------------------------------------------------------------
(* OfferScreen: the offer the client computes and sends with AcceptOffer *)

\* a faulty variant: the two amounts are rounded up
calculateOfferRoundingUp(invoice) ==
    LET advancePercent == IF invoice.riskBand = "low" THEN 900
                          ELSE IF invoice.riskBand = "medium" THEN 850
                          ELSE IF invoice.riskBand = "high" THEN 800
                          ELSE 850
        feePercent == IF invoice.riskBand = "low" THEN 25
                      ELSE IF invoice.riskBand = "medium" THEN 30
                      ELSE IF invoice.riskBand = "high" THEN 35
                      ELSE 30
        advanceAmount == CeilDiv(invoice.amount * advancePercent, PercentScale)
        fee == CeilDiv(invoice.amount * feePercent, PercentScale)
    IN  [advancePercent |-> advancePercent, feePercent |-> feePercent,
         advanceAmount |-> advanceAmount, fee |-> fee,
         netReceived |-> advanceAmount,
         remainingAmount |-> invoice.amount - advanceAmount - fee]

\* a faulty variant: a band the table does not know gets the low row
calculateOfferDefaultLow(invoice) ==
    LET advancePercent == IF invoice.riskBand = "medium" THEN 850
                          ELSE IF invoice.riskBand = "high" THEN 800
                          ELSE 900
        feePercent == IF invoice.riskBand = "medium" THEN 30
                      ELSE IF invoice.riskBand = "high" THEN 35
                      ELSE 25
        advanceAmount == FloorDiv(invoice.amount * advancePercent, PercentScale)
        fee == FloorDiv(invoice.amount * feePercent, PercentScale)
    IN  [advancePercent |-> advancePercent, feePercent |-> feePercent,
         advanceAmount |-> advanceAmount, fee |-> fee,
         netReceived |-> advanceAmount,
         remainingAmount |-> invoice.amount - advanceAmount - fee]

calculateOffer(invoice) ==
    LET advancePercent == IF invoice.riskBand = "low" THEN 900
                          ELSE IF invoice.riskBand = "medium" THEN 850
                          ELSE IF invoice.riskBand = "high" THEN 800
                          ELSE 850
        feePercent == IF invoice.riskBand = "low" THEN 25
                      ELSE IF invoice.riskBand = "medium" THEN 30
                      ELSE IF invoice.riskBand = "high" THEN 35
                      ELSE 30
        advanceAmount == FloorDiv(invoice.amount * advancePercent, PercentScale)
        fee == FloorDiv(invoice.amount * feePercent, PercentScale)
    IN  [advancePercent |-> advancePercent, feePercent |-> feePercent,
         advanceAmount |-> advanceAmount, fee |-> fee,
         netReceived |-> advanceAmount,
         remainingAmount |-> invoice.amount - advanceAmount - fee]

\* handleAcceptOffer: the body of the accept-offer request
OfferBody(invoice) == Restrict(calculateOffer(invoice), OfferFields)

----------------------------------------------------------------------------
(* POST /invoices/:invoiceId/accept-offer *)

\* the body of a caller other than the OfferScreen: a zero advance at a 100%
\* fee, and no advanceAmount
RogueBodies == { [advancePercent |-> 0, feePercent |-> 1000] }

AcceptBodies(invoiceId) ==
    RogueBodies \cup
        (IF KvHas(kv, InvoicePrefix, invoiceId)
         THEN {OfferBody(kv[Key(InvoicePrefix, invoiceId)])} ELSE {})

\* the ids a caller may name: those of the stored records of the kind, and
\* one the server never drew
RequestIds(prefix) == KvIds(kv, prefix) \cup {UnknownId}

\* a faulty variant: stores the transient status of the offer screen
UpdatedInvoiceOffered(invoice, body) ==
    Spread(Without(invoice, OfferFields),
           Spread([status |-> "offered"], Restrict(body, OfferFields)))

\* a faulty variant: the record is rebuilt for the offer's buyer, whom the
\* body does not name
UpdatedInvoiceRebuilt(invoice, body) ==
    Spread(Without(invoice, OfferFields \cup {"buyer"}),
           Spread([status |-> "advanced", buyer |-> ""],
                  Restrict(body, OfferFields)))

\* lines 245-251, as serialised: an undefined offer field is no field
UpdatedInvoice(invoice, body) ==
    Spread(Without(invoice, OfferFields),
           Spread([status |-> "advanced"], Restrict(body, OfferFields)))

\* lines 257-270, as serialised
NewAdvance(id, invoiceId, invoice, body, t) ==
    Spread([id |-> id, invoiceId |-> invoiceId, userId |-> DEFAULT_USER_ID,
            filename |-> invoice.filename, buyer |-> invoice.buyer,
            invoiceAmount |-> invoice.amount, dueDate |-> invoice.dueDate,
            status |-> "active", createdAt |-> t,
            riskBand |-> invoice.riskBand],
           Restrict(body, {"advanceAmount", "feePercent"}))

\* is the request with this invoice let through to the writes (line 240)
AcceptAdmits(store, invoiceId) == KvHas(store, InvoicePrefix, invoiceId)

\* a faulty variant without the guard of line 240: the invoice built from no
\* record is written, and building the advance then fails
AcceptGetUnguarded(p, invoiceId, body) ==
    /\ Free(p)
    /\ IF KvHas(kv, InvoicePrefix, invoiceId)
       THEN /\ req' = [req EXCEPT ![p] =
                   [op |-> "accept", pc |-> "set_invoice", param |-> invoiceId,
                    body |-> body,
                    local |-> [invoice |-> kv[Key(InvoicePrefix, invoiceId)]],
                    status |-> 0]]
            /\ UNCHANGED kv
       ELSE /\ kv' = KvSet(kv, InvoicePrefix, invoiceId,
                           Spread([status |-> "advanced"],
                                  Restrict(body, OfferFields)))
            /\ req' = [req EXCEPT ![p] =
                   Done([Idle EXCEPT !.op = "accept", !.param = invoiceId,
                                     !.body = body], 500)]
    /\ UNCHANGED <<nextId, now, settledFrom, ui>>

\* lines 234-251: read the invoice; 404 when there is none
AcceptGet(p, invoiceId, body) ==
    /\ Free(p)
    /\ req' = [req EXCEPT ![p] =
           IF AcceptAdmits(kv, invoiceId)
           THEN [op |-> "accept", pc |-> "set_invoice", param |-> invoiceId,
                 body |-> body,
                 local |-> [invoice |-> kv[Key(InvoicePrefix, invoiceId)]],
                 status |-> 0]
           ELSE Done([Idle EXCEPT !.op = "accept", !.param = invoiceId,
                                  !.body = body], 404)]
    /\ UNCHANGED <<kv, nextId, now, settledFrom, ui>>

\* a variant that writes the invoice only if it is still stored as it was
\* read, and fails otherwise
AcceptSetInvoiceConditional(p) ==
    /\ req[p].op = "accept" /\ req[p].pc = "set_invoice"
    /\ CanDraw
    /\ IF kv[Key(InvoicePrefix, req[p].param)] = req[p].local.invoice
       THEN /\ kv' = KvSet(kv, InvoicePrefix, req[p].param,
                           UpdatedInvoice(req[p].local.invoice, req[p].body))
            /\ req' = [req EXCEPT ![p].pc = "set_advance",
                          ![p].local = Spread(req[p].local,
                              [advance |-> NewAdvance(nextId, req[p].param,
                                  req[p].local.invoice, req[p].body, now)])]
            /\ nextId' = nextId + 1
       ELSE /\ req' = [req EXCEPT ![p] = Done(req[p], 500)]
            /\ UNCHANGED <<kv, nextId>>
    /\ UNCHANGED <<now, settledFrom, ui>>

\* lines 253-270: write the invoice, then draw the advance's id and build it
AcceptSetInvoice(p) ==
    /\ req[p].op = "accept" /\ req[p].pc = "set_invoice"
    /\ CanDraw
    /\ kv' = KvSet(kv, InvoicePrefix, req[p].param,
                   UpdatedInvoice(req[p].local.invoice, req[p].body))
    /\ req' = [req EXCEPT ![p].pc = "set_advance",
                          ![p].local = Spread(req[p].local,
                              [advance |-> NewAdvance(nextId, req[p].param,
                                  req[p].local.invoice, req[p].body, now)])]
    /\ nextId' = nextId + 1
    /\ UNCHANGED <<now, settledFrom, ui>>

\* line 272
AcceptSetAdvance(p) ==
    /\ req[p].op = "accept" /\ req[p].pc = "set_advance"
    /\ kv' = KvSet(kv, AdvancePrefix, req[p].local.advance.id,
                   req[p].local.advance)
    /\ req' = [req EXCEPT ![p].pc = "set_index"]
    /\ UNCHANGED <<nextId, now, settledFrom, ui>>

\* lines 273-275
AcceptSetIndex(p) ==
    /\ req[p].op = "accept" /\ req[p].pc = "set_index"
    /\ kv' = KvSet(kv, UserAdvancePrefix, req[p].local.advance.id,
                   req[p].local.advance.id)
    /\ req' = [req EXCEPT ![p] = Done(req[p], 200)]
    /\ UNCHANGED <<nextId, now, settledFrom, ui>>

----------------------------------------------------------------------------
(* POST /advances/:advanceId/mark-paid *)

\* a NaN serialised to JSON (null): a number no handler computes otherwise
NullNumber == -1

IsNumber(r, f) == Has(r, f) /\ r[f] # NullNumber

\* line 335
FeeAmount(advance) ==
    IF IsNumber(advance, "invoiceAmount") /\ IsNumber(advance, "feePercent")
    THEN FloorDiv(advance.invoiceAmount * advance.feePercent, PercentScale)
    ELSE NullNumber

\* line 336
RemainingAmount(advance, feeAmount) ==
    IF IsNumber(advance, "invoiceAmount") /\ IsNumber(advance, "advanceAmount")
          /\ feeAmount # NullNumber
    THEN advance.invoiceAmount - advance.advanceAmount - feeAmount
    ELSE NullNumber

\* a faulty variant: whole days elapsed, a started day not counted
DaysToPayWholeDays(advance, t) == FloorDiv(t - advance.createdAt, TicksPerDay)

\* line 337
DaysToPay(advance, t) == CeilDiv(t - advance.createdAt, TicksPerDay)

\* a faulty variant: writes the label of the advances screen
UpdatedAdvanceLabelled(advance) == [advance EXCEPT !.status = "overdue"]

\* a faulty variant: the advance is written back as it was read
UpdatedAdvanceUnchanged(advance) == advance

\* a faulty variant: the paid advance is no longer due
UpdatedAdvanceCleared(advance) ==
    [advance EXCEPT !.status = "paid", !.dueDate = 0]

\* lines 327-330
UpdatedAdvance(advance) == [advance EXCEPT !.status = "paid"]

\* lines 339-355, as serialised
NewSettlement(id, advance, t) ==
    LET feeAmount == FeeAmount(advance)
        remainingAmount == RemainingAmount(advance, feeAmount)
    IN  Spread([id |-> id, invoiceId |-> advance.invoiceId,
                userId |-> DEFAULT_USER_ID, filename |-> advance.filename,
                buyer |-> advance.buyer,
                invoiceAmount |-> advance.invoiceAmount,
                feeAmount |-> feeAmount, remainingAmount |-> remainingAmount,
                settlementAmount |-> remainingAmount, paidDate |-> t,
                createdAt |-> advance.createdAt, riskBand |-> advance.riskBand,
                daysToPay |-> DaysToPay(advance, t)],
               Restrict(advance, {"advanceAmount", "feePercent"}))

\* is the request for this advance let through to the writes (line 322)
MarkPaidAdmits(store, advanceId) == KvHas(store, AdvancePrefix, advanceId)

\* a faulty variant without the guard of line 322: the advance built from no
\* record is written, and building the settlement then fails
MarkPaidGetUnguarded(p, advanceId) ==
    /\ Free(p)
    /\ IF KvHas(kv, AdvancePrefix, advanceId)
       THEN /\ req' = [req EXCEPT ![p] =
                   [op |-> "markPaid", pc |-> "set_advance",
                    param |-> advanceId, body |-> Empty,
                    local |-> [advance |-> kv[Key(AdvancePrefix, advanceId)]],
                    status |-> 0]]
            /\ UNCHANGED kv
       ELSE /\ kv' = KvSet(kv, AdvancePrefix, advanceId, [status |-> "paid"])
            /\ req' = [req EXCEPT ![p] =
                   Done([Idle EXCEPT !.op = "markPaid", !.param = advanceId], 500)]
    /\ UNCHANGED <<nextId, now, settledFrom, ui>>

\* lines 318-330: read the advance; 404 when there is none
MarkPaidGet(p, advanceId) ==
    /\ Free(p)
    /\ req' = [req EXCEPT ![p] =
           IF MarkPaidAdmits(kv, advanceId)
           THEN [op |-> "markPaid", pc |-> "set_advance", param |-> advanceId,
                 body |-> Empty,
                 local |-> [advance |-> kv[Key(AdvancePrefix, advanceId)]],
                 status |-> 0]
           ELSE Done([Idle EXCEPT !.op = "markPaid", !.param = advanceId], 404)]
    /\ UNCHANGED <<kv, nextId, now, settledFrom, ui>>

\* lines 331-355: write the advance, then draw the settlement's id and build it
MarkPaidSetAdvance(p) ==
    /\ req[p].op = "markPaid" /\ req[p].pc = "set_advance"
    /\ CanDraw
    /\ kv' = KvSet(kv, AdvancePrefix, req[p].param,
                   UpdatedAdvance(req[p].local.advance))
    /\ req' = [req EXCEPT ![p].pc = "set_settlement",
                          ![p].local = Spread(req[p].local,
                              [settlement |->
                                  NewSettlement(nextId, req[p].local.advance, now)])]
    /\ nextId' = nextId + 1
    /\ UNCHANGED <<now, settledFrom, ui>>

\* a faulty variant: one settlement is kept for an advance, under the id of
\* the advance, and a later payment replaces it
MarkPaidSetSettlementPerAdvance(p) ==
    /\ req[p].op = "markPaid" /\ req[p].pc = "set_settlement"
    /\ kv' = KvSet(kv, SettlementPrefix, req[p].param,
                   [req[p].local.settlement EXCEPT !.id = req[p].param])
    /\ settledFrom' = Spread(settledFrom,
           [s \in {req[p].param} |-> req[p].param])
    /\ req' = [req EXCEPT ![p].pc = "set_index",
                          ![p].local.settlement.id = req[p].param]
    /\ UNCHANGED <<nextId, now, ui>>

\* line 357
MarkPaidSetSettlement(p) ==
    /\ req[p].op = "markPaid" /\ req[p].pc = "set_settlement"
    /\ kv' = KvSet(kv, SettlementPrefix, req[p].local.settlement.id,
                   req[p].local.settlement)
    /\ settledFrom' = Spread(settledFrom,
           [s \in {req[p].local.settlement.id} |-> req[p].param])
    /\ req' = [req EXCEPT ![p].pc = "set_index"]
    /\ UNCHANGED <<nextId, now, ui>>

\* lines 358-360
MarkPaidSetIndex(p) ==
    /\ req[p].op = "markPaid" /\ req[p].pc = "set_index"
    /\ kv' = KvSet(kv, UserSettlementPrefix, req[p].local.settlement.id,
                   req[p].local.settlement.id)
    /\ req' = [req EXCEPT ![p] = Done(req[p], 200)]
    /\ UNCHANGED <<nextId, now, settledFrom, ui>>

----------------------------------------------------------------------------
(* The server: any handler may take its next step *)

Next ==
    \/ Tick
    \/ \E p \in Slots : Respond(p)
    \/ \E p \in Slots, body \in IngestBodies : IngestStart(p, body)
    \/ \E p \in Slots : IngestSetInvoice(p)
    \/ \E p \in Slots : IngestSetIndex(p)
    \/ \E p \in Slots, body \in UploadBodies : ProcessAIStart(p, body)
    \/ \E p \in Slots, draw \in ExtractionDraws : ProcessAIExtract(p, draw)
    \/ \E p \in Slots, draw \in FactorDraws : ProcessAIAssess(p, draw)
    \/ \E p \in Slots : ProcessAISetInvoice(p)
    \/ \E p \in Slots : ProcessAISetIndex(p)
    \/ \E p \in Slots, invoiceId \in RequestIds(InvoicePrefix) :
          \E body \in AcceptBodies(invoiceId) : AcceptGet(p, invoiceId, body)
    \/ \E p \in Slots : AcceptSetInvoice(p)
    \/ \E p \in Slots : AcceptSetAdvance(p)
    \/ \E p \in Slots : AcceptSetIndex(p)
    \/ \E p \in Slots, advanceId \in RequestIds(AdvancePrefix) : MarkPaidGet(p, advanceId)
    \/ \E p \in Slots : MarkPaidSetAdvance(p)
    \/ \E p \in Slots : MarkPaidSetSettlement(p)
    \/ \E p \in Slots : MarkPaidSetIndex(p)

Spec == Init /\ [][Next]_vars

InFlight(r) == {p \in Slots : r[p].pc \notin {"idle", "done"}}

\* the same server when its callers never overlap: a request is sent only
\* after the response to the one before it, so only the lowest slot is used
NextSeq == Next /\ \A p \in Slots : p > 1 => req'[p] = Idle

SpecSeq == Init /\ [][NextSeq]_vars

----------------------------------------------------------------------------
(* The stored records *)

Invoices == {kv[Key(InvoicePrefix, id)] : id \in KvIds(kv, InvoicePrefix)}

Advances == {kv[Key(AdvancePrefix, id)] : id \in KvIds(kv, AdvancePrefix)}

Settlements == {kv[Key(SettlementPrefix, id)] : id \in KvIds(kv, SettlementPrefix)}

Quiescent == InFlight(req) = {}

----------------------------------------------------------------------------
(* Store failures: any kv operation may throw; the handler's catch block   *)
(* answers.                                                                *)

StoreWrites == {"set_invoice", "set_advance", "set_settlement", "set_index"}

\* a faulty variant: a lookup that failed is answered like one that found
\* nothing
CatchStatusNotFoundAtLookup(r) == IF r.pc = "get" THEN 404 ELSE 500

\* lines 186-189, 225-228, 276-279, 361-364: the catch blocks answer 500
CatchStatus(r) == 500

\* the handler r after the store operation it awaited has thrown
Caught(r) ==
    Done([r EXCEPT !.local = Spread(r.local, [error |-> [at |-> r.pc]])],
         CatchStatus(r))

\* lines 238 and 276-279: kv.get of the invoice throws
AcceptGetFails(p, invoiceId, body) ==
    /\ Free(p)
    /\ req' = [req EXCEPT ![p] =
           Caught([Idle EXCEPT !.op = "accept", !.pc = "get",
                               !.param = invoiceId, !.body = body])]
    /\ UNCHANGED <<kv, nextId, now, settledFrom, ui>>

\* lines 320 and 361-364: kv.get of the advance throws
MarkPaidGetFails(p, advanceId) ==
    /\ Free(p)
    /\ req' = [req EXCEPT ![p] =
           Caught([Idle EXCEPT !.op = "markPaid", !.pc = "get",
                               !.param = advanceId])]
    /\ UNCHANGED <<kv, nextId, now, settledFrom, ui>>

\* the kv.set a handler is about to await throws: nothing is written
StoreWriteFails(p) ==
    /\ req[p].pc \in StoreWrites
    /\ req' = [req EXCEPT ![p] = Caught(req[p])]
    /\ UNCHANGED <<kv, nextId, now, settledFrom, ui>>

\* the callers of this specification do not overlap: a request is sent only
\* when no other is in flight, and takes the first slot
Caller == {1}

NextFault ==
    \/ Tick
    \/ \E p \in Slots : Respond(p)
    \/ \E p \in Caller, body \in IngestBodies : IngestStart(p, body)
    \/ \E p \in Slots : IngestSetInvoice(p)
    \/ \E p \in Slots : IngestSetIndex(p)
    \/ \E p \in Caller, body \in UploadBodies : ProcessAIStart(p, body)
    \/ \E p \in Slots, draw \in ExtractionDraws : ProcessAIExtract(p, draw)
    \/ \E p \in Slots, draw \in FactorDraws : ProcessAIAssess(p, draw)
    \/ \E p \in Slots : ProcessAISetInvoice(p)
    \/ \E p \in Slots : ProcessAISetIndex(p)
    \/ \E p \in Caller, invoiceId \in RequestIds(InvoicePrefix) :
          \E body \in AcceptBodies(invoiceId) : AcceptGet(p, invoiceId, body)
    \/ \E p \in Slots : AcceptSetInvoice(p)
    \/ \E p \in Slots : AcceptSetAdvance(p)
    \/ \E p \in Slots : AcceptSetIndex(p)
    \/ \E p \in Caller, advanceId \in RequestIds(AdvancePrefix) : MarkPaidGet(p, advanceId)
    \/ \E p \in Slots : MarkPaidSetAdvance(p)
    \/ \E p \in Slots : MarkPaidSetSettlement(p)
    \/ \E p \in Slots : MarkPaidSetIndex(p)
    \/ \E p \in Caller, invoiceId \in RequestIds(InvoicePrefix) :
          \E body \in AcceptBodies(invoiceId) : AcceptGetFails(p, invoiceId, body)
    \/ \E p \in Caller, advanceId \in RequestIds(AdvancePrefix) :
          MarkPaidGetFails(p, advanceId)
    \/ \E p \in Slots : StoreWriteFails(p)

SpecFault == Init /\ [][NextFault]_vars

----------------------------------------------------------------------------
(* GET /advances and GET /settlements *)

\* kv.getByPrefix: the values under a prefix, in an order the store chooses
getByPrefix(store, prefix) ==
    LET ids == KvIds(store, prefix)
        n == Cardinality(ids)
    IN  {order \in [1..n -> ids] :
            \A i, j \in 1..n : i # j => order[i] # order[j]}

RECURSIVE InsertNewestFirst(_, _, _)
\* x goes behind every record that is as new as it or newer: the sort is stable
InsertNewestFirst(x, sorted, field) ==
    IF sorted = <<>> THEN <<x>>
    ELSE IF Head(sorted)[field] >= x[field]
         THEN <<Head(sorted)>> \o InsertNewestFirst(x, Tail(sorted), field)
         ELSE <<x>> \o sorted

RECURSIVE StableSortNewestFirst(_, _)
StableSortNewestFirst(records, field) ==
    IF records = <<>> THEN <<>>
    ELSE InsertNewestFirst(
             records[Len(records)],
             StableSortNewestFirst(SubSeq(records, 1, Len(records) - 1), field),
             field)

\* a faulty variant: the records leave in the order they were fetched
SortOmitted(records, field) == records

\* lines 306 and 383: Array.prototype.sort with (a, b) => b[field] - a[field]
SortNewestFirst(records, field) == StableSortNewestFirst(records, field)

\* lines 283-290: scan the owner's advance index
ListAdvancesScan(p) ==
    /\ Free(p)
    /\ \E order \in getByPrefix(kv, UserAdvancePrefix) :
          req' = [req EXCEPT ![p] =
              [op |-> "listAdvances", pc |-> "get", param |-> UnknownId,
               body |-> Empty,
               local |-> [advanceKeys |-> order, next |-> 1, advances |-> <<>>],
               status |-> 0]]
    /\ UNCHANGED <<kv, nextId, now, settledFrom, ui>>

\* a faulty variant: an index entry without its record is an error
ListAdvancesGetStrict(p) ==
    /\ req[p].op = "listAdvances" /\ req[p].pc = "get"
    /\ req[p].local.next <= Len(req[p].local.advanceKeys)
    /\ LET advanceId == req[p].local.advanceKeys[req[p].local.next]
       IN  req' = [req EXCEPT ![p] =
               IF KvHas(kv, AdvancePrefix, advanceId)
               THEN [req[p] EXCEPT
                        !.local.advances = Append(@, kv[Key(AdvancePrefix, advanceId)]),
                        !.local.next = @ + 1]
               ELSE Done(req[p], 500)]
    /\ UNCHANGED <<kv, nextId, now, settledFrom, ui>>

\* a faulty variant: an advance that is no longer active is left out
ListAdvancesGetActiveOnly(p) ==
    /\ req[p].op = "listAdvances" /\ req[p].pc = "get"
    /\ req[p].local.next <= Len(req[p].local.advanceKeys)
    /\ LET advanceId == req[p].local.advanceKeys[req[p].local.next]
       IN  req' = [req EXCEPT ![p] =
               IF /\ KvHas(kv, AdvancePrefix, advanceId)
                  /\ kv[Key(AdvancePrefix, advanceId)].status = "active"
               THEN [req[p] EXCEPT
                        !.local.advances = Append(@, kv[Key(AdvancePrefix, advanceId)]),
                        !.local.next = @ + 1]
               ELSE [req[p] EXCEPT !.local.next = @ + 1]]
    /\ UNCHANGED <<kv, nextId, now, settledFrom, ui>>

\* lines 294-302: fetch the next advance; one that is not there is skipped
ListAdvancesGet(p) ==
    /\ req[p].op = "listAdvances" /\ req[p].pc = "get"
    /\ req[p].local.next <= Len(req[p].local.advanceKeys)
    /\ LET advanceId == req[p].local.advanceKeys[req[p].local.next]
       IN  req' = [req EXCEPT ![p] =
               IF KvHas(kv, AdvancePrefix, advanceId)
               THEN [req[p] EXCEPT
                        !.local.advances = Append(@, kv[Key(AdvancePrefix, advanceId)]),
                        !.local.next = @ + 1]
               ELSE [req[p] EXCEPT !.local.next = @ + 1]]
    /\ UNCHANGED <<kv, nextId, now, settledFrom, ui>>

\* lines 305-308: sort and respond
ListAdvancesReturn(p) ==
    /\ req[p].op = "listAdvances" /\ req[p].pc = "get"
    /\ req[p].local.next > Len(req[p].local.advanceKeys)
    /\ req' = [req EXCEPT ![p] =
           Done([req[p] EXCEPT !.local.advances =
                    SortNewestFirst(@, "createdAt")], 200)]
    /\ UNCHANGED <<kv, nextId, now, settledFrom, ui>>

\* lines 368-373: scan the owner's settlement index
ListSettlementsScan(p) ==
    /\ Free(p)
    /\ \E order \in getByPrefix(kv, UserSettlementPrefix) :
          req' = [req EXCEPT ![p] =
              [op |-> "listSettlements", pc |-> "get", param |-> UnknownId,
               body |-> Empty,
               local |-> [settlementKeys |-> order, next |-> 1,
                          settlements |-> <<>>],
               status |-> 0]]
    /\ UNCHANGED <<kv, nextId, now, settledFrom, ui>>

\* lines 375-380: fetch the next settlement; one that is not there is skipped
ListSettlementsGet(p) ==
    /\ req[p].op = "listSettlements" /\ req[p].pc = "get"
    /\ req[p].local.next <= Len(req[p].local.settlementKeys)
    /\ LET settlementId == req[p].local.settlementKeys[req[p].local.next]
       IN  req' = [req EXCEPT ![p] =
               IF KvHas(kv, SettlementPrefix, settlementId)
               THEN [req[p] EXCEPT
                        !.local.settlements =
                            Append(@, kv[Key(SettlementPrefix, settlementId)]),
                        !.local.next = @ + 1]
               ELSE [req[p] EXCEPT !.local.next = @ + 1]]
    /\ UNCHANGED <<kv, nextId, now, settledFrom, ui>>

\* lines 382-385: sort and respond
ListSettlementsReturn(p) ==
    /\ req[p].op = "listSettlements" /\ req[p].pc = "get"
    /\ req[p].local.next > Len(req[p].local.settlementKeys)
    /\ req' = [req EXCEPT ![p] =
           Done([req[p] EXCEPT !.local.settlements =
                    SortNewestFirst(@, "paidDate")], 200)]
    /\ UNCHANGED <<kv, nextId, now, settledFrom, ui>>

\* the store is a table others can reach: a primary record is deleted behind
\* the server's back, its index entry stays
DeleteOutOfBand(prefix, id) ==
    /\ KvHas(kv, prefix, id)
    /\ kv' = Without(kv, {Key(prefix, id)})
    /\ UNCHANGED <<req, nextId, now, settledFrom, ui>>

\* the listings at work on the stored records while records are deleted
\* out of band
NextList ==
    \/ Tick
    \/ \E p \in Slots : Respond(p)
    \/ \E p \in Slots : ListAdvancesScan(p)
    \/ \E p \in Slots : ListAdvancesGet(p)
    \/ \E p \in Slots : ListAdvancesReturn(p)
    \/ \E p \in Slots : ListSettlementsScan(p)
    \/ \E p \in Slots : ListSettlementsGet(p)
    \/ \E p \in Slots : ListSettlementsReturn(p)
    \/ \E prefix \in {AdvancePrefix, SettlementPrefix} :
          \E id \in KvIds(kv, prefix) : DeleteOutOfBand(prefix, id)

SpecList == Init /\ [][NextList]_vars

----------------------------------------------------------------------------
(* The browser: UploadInvoice in simulation mode (part_003), the OfferScreen *)
(* (part_001) and the ActiveAdvances screen (ActiveAdvances.tsx).           *)

MaxOfferAmount == 400      \* the OfferScreen is shown amounts 1..MaxOfferAmount
MaxBehind == 2             \* days a displayed due date lies before the boot day
MaxAhead == 9              \* days a displayed due date lies after the boot day

\* part_003 line 194: Math.floor(Math.random() * 50000) + 10000, at the ends
\* of its range and at the limits the banding tests
SimulatedAmounts == {10000, 24999, 25000, 39999, 40000, 59999}

\* part_003 line 196: Math.random() * 90 days, in ticks
DueOffsets == 0..(90 * TicksPerDay - 1)

\* part_003 line 200
SimulatedDaysToDue(dueDate, t) == CeilDiv(TimeOfDate(dueDate) - t, TicksPerDay)

\* a faulty variant: the limits of the low band are inclusive
SimpleRiskBandInclusive(amount, daysToDue) ==
    IF amount <= 25000 /\ daysToDue <= 60 THEN "low"
    ELSE IF amount < 40000 /\ daysToDue < 45 THEN "medium"
    ELSE "high"

\* a faulty variant: the amount test of the low band is turned round
SimpleRiskBandReversed(amount, daysToDue) ==
    IF amount > 25000 /\ daysToDue < 60 THEN "low"
    ELSE IF amount < 40000 /\ daysToDue < 45 THEN "medium"
    ELSE "high"

\* part_003 lines 201-209
SimpleRiskBand(amount, daysToDue) ==
    IF amount < 25000 /\ daysToDue < 60 THEN "low"
    ELSE IF amount < 40000 /\ daysToDue < 45 THEN "medium"
    ELSE "high"

\* part_003 lines 191-216
simulateInvoiceProcessing(amount, dueOffset, t) ==
    LET dueDate == DateOf(t + dueOffset)
    IN  [amount |-> amount, buyer |-> "Acme Corp", dueDate |-> dueDate,
         riskBand |-> SimpleRiskBand(amount, SimulatedDaysToDue(dueDate, t)),
         status |-> "uploaded", createdAt |-> t]

\* part_003 lines 143-157: the simulated data is posted to /invoices
FallbackBody(amount, dueOffset, t) ==
    Spread(simulateInvoiceProcessing(amount, dueOffset, t),
           [filename |-> "scan.pdf"])

\* part_000 line 80: the upload screen is opened
OpenUpload ==
    /\ ui.screen = "dashboard"
    /\ ui' = [screen |-> "upload"]
    /\ UNCHANGED <<kv, req, nextId, now, settledFrom>>

\* part_003 lines 60-98: a file is dropped on a fresh upload screen and
\* posted to /invoices/process-ai; the screen awaits the response
ProcessInvoice(p) ==
    /\ ui = [screen |-> "upload"]
    /\ \A q \in Slots : req[q].pc = "idle"
    /\ ProcessAIStart(p, [file |-> "scan.pdf"])

\* part_003 lines 108-114: the response of /invoices/process-ai is ok
AIProcessed(p) ==
    /\ ui.screen = "upload"
    /\ req[p].op = "processAI" /\ req[p].pc = "done" /\ req[p].status = 200
    /\ ui' = [screen |-> "offer", invoice |-> req[p].local.invoice,
              offer |-> calculateOffer(req[p].local.invoice)]
    /\ req' = [req EXCEPT ![p] = Idle]
    /\ UNCHANGED <<kv, nextId, now, settledFrom>>

\* a faulty variant: the failure is reported and the upload is over
AIFailedReported(p) ==
    /\ ui.screen = "upload"
    /\ req[p].op = "processAI" /\ req[p].pc = "done" /\ req[p].status # 200
    /\ ui' = [screen |-> "upload", error |-> "Failed to process invoice"]
    /\ req' = [req EXCEPT ![p] = Idle]
    /\ UNCHANGED <<kv, nextId, now, settledFrom>>

\* part_003 lines 100-107 (and 116-120): the response is not ok, the screen
\* falls back to the simulation
AIFailed(p) ==
    /\ ui.screen = "upload"
    /\ req[p].op = "processAI" /\ req[p].pc = "done" /\ req[p].status # 200
    /\ ui' = [screen |-> "upload", step |-> "fallback"]
    /\ req' = [req EXCEPT ![p] = Idle]
    /\ UNCHANGED <<kv, nextId, now, settledFrom>>

\* part_003 lines 160-188: the response of POST /invoices is not ok; the
\* error is shown
FallbackFailed(p) ==
    /\ ui.screen = "upload"
    /\ req[p].op = "ingest" /\ req[p].pc = "done" /\ req[p].status # 200
    /\ ui' = [screen |-> "upload", error |-> "Failed to process invoice"]
    /\ req' = [req EXCEPT ![p] = Idle]
    /\ UNCHANGED <<kv, nextId, now, settledFrom>>

\* part_003 lines 129-157, the path taken when /invoices/process-ai has
\* failed; the screen sends one request and awaits its response
ProcessInvoiceFallback(p) ==
    /\ ui.screen = "upload"
    /\ Has(ui, "step") /\ ui.step = "fallback"
    /\ \A q \in Slots : req[q].pc = "idle"
    /\ \E amount \in SimulatedAmounts, dueOffset \in DueOffsets :
          IngestStart(p, FallbackBody(amount, dueOffset, now))

\* part_000 lines 30-33 and part_001 line 68: the OfferScreen renders its offer
handleInvoiceProcessed(invoice) ==
    ui' = [screen |-> "offer", invoice |-> invoice,
           offer |-> calculateOffer(invoice)]

\* part_003 lines 182-184: the response of POST /invoices has arrived
InvoiceProcessed(p) ==
    /\ ui.screen = "upload"
    /\ req[p].op = "ingest" /\ req[p].pc = "done" /\ req[p].status = 200
    /\ handleInvoiceProcessed(req[p].local.invoice)
    /\ req' = [req EXCEPT ![p] = Idle]
    /\ UNCHANGED <<kv, nextId, now, settledFrom>>

\* the invoices a server response may hand to the OfferScreen: the server
\* checks neither the amount nor the band of a manual entry beyond falsiness
OfferedBands == {"low", "medium", "high", "unrated"}

OfferedInvoices ==
    [amount : (1..MaxOfferAmount) \cup {42000}, riskBand : OfferedBands]

OpenOffer ==
    /\ ui.screen = "dashboard"
    /\ \E invoice \in OfferedInvoices : handleInvoiceProcessed(invoice)
    /\ UNCHANGED <<kv, req, nextId, now, settledFrom>>

\* the advances GET /advances may return, as far as the badge reads them
DisplayedAdvances ==
    [status : {"active", "paid"},
     dueDate : (DateOf(BootTime) - MaxBehind)..(DateOf(BootTime) + MaxAhead)]

\* the lists of advances the screen is given: of one and of two
DisplayedLists ==
    {<<a>> : a \in DisplayedAdvances}
        \cup {<<a, b>> : a, b \in DisplayedAdvances}

\* ActiveAdvances.tsx line 91 (and 117)
AdvanceDaysToDue(advance, t) ==
    CeilDiv(TimeOfDate(advance.dueDate) - t, TicksPerDay)

\* a faulty variant: overdue as soon as the due date's midnight has passed
getStatusBadgePastMidnight(advance, t) ==
    IF advance.status = "paid" THEN "Paid"
    ELSE IF TimeOfDate(advance.dueDate) < t THEN "Overdue"
    ELSE IF AdvanceDaysToDue(advance, t) <= 7 THEN "Due Soon"
    ELSE "Active"

\* ActiveAdvances.tsx lines 90-102
getStatusBadge(advance, t) ==
    IF advance.status = "paid" THEN "Paid"
    ELSE IF AdvanceDaysToDue(advance, t) < 0 THEN "Overdue"
    ELSE IF AdvanceDaysToDue(advance, t) <= 7 THEN "Due Soon"
    ELSE "Active"

\* ActiveAdvances.tsx lines 116-119
overdueCount(advances, t) ==
    Cardinality({i \in DOMAIN advances :
        AdvanceDaysToDue(advances[i], t) < 0 /\ advances[i].status = "active"})

\* ActiveAdvances.tsx lines 26, 50, 90-119: the screen renders its advances
ShowAdvances ==
    /\ ui.screen = "dashboard"
    /\ \E advances \in DisplayedLists :
          ui' = [screen |-> "advances", advances |-> advances,
                 badges |-> [i \in DOMAIN advances |->
                                getStatusBadge(advances[i], now)],
                 overdueCount |-> overdueCount(advances, now),
                 renderedAt |-> now]
    /\ UNCHANGED <<kv, req, nextId, now, settledFrom>>

NextClient ==
    \/ Tick
    \/ OpenUpload
    \/ \E p \in Slots : ProcessInvoice(p)
    \/ \E p \in Slots, draw \in ExtractionDraws : ProcessAIExtract(p, draw)
    \/ \E p \in Slots : ProcessAIExtractFails(p)
    \/ \E p \in Slots, draw \in FactorDraws : ProcessAIAssess(p, draw)
    \/ \E p \in Slots : ProcessAIAssessFails(p)
    \/ \E p \in Slots : ProcessAISetInvoice(p)
    \/ \E p \in Slots : ProcessAISetIndex(p)
    \/ \E p \in Slots : StoreWriteFails(p)
    \/ \E p \in Slots : AIProcessed(p)
    \/ \E p \in Slots : AIFailed(p)
    \/ \E p \in Slots : FallbackFailed(p)
    \/ \E p \in Slots : ProcessInvoiceFallback(p)
    \/ \E p \in Slots : IngestSetInvoice(p)
    \/ \E p \in Slots : IngestSetIndex(p)
    \/ \E p \in Slots : InvoiceProcessed(p)
    \/ OpenOffer
    \/ ShowAdvances

SpecClient == Init /\ [][NextClient]_vars

----------------------------------------------------------------------------
(* The risk scoring on its own: calculateRiskScore and determineRiskBand,   *)
(* as assessInvoiceRisk calls them, on risk factors of any amount, days to  *)
(* due and ratios in (0, 1].                                                *)

RatioSteps == 4      \* the ratios are taken on a grid of this many steps

Ratios == {(100 * k) \div RatioSteps : k \in 1..RatioSteps}

\* amounts and days to due on both sides of the thresholds of lines 146-151
RiskAmounts == {1, 30000, 30001, 50000, 50001, 1000000}

RiskDaysToDue == {-5, 0, 45, 46, 60, 61, 365}

RiskFactorInputs ==
    [amount : RiskAmounts, daysToDue : RiskDaysToDue, buyerProfile : Ratios,
     invoiceAge : {0}, paymentHistory : Ratios, industryRisk : Ratios]

\* a call of the scoring on these factors, about to run line 107
ScoreCall(factors) ==
    [Idle EXCEPT !.op = "assessRisk", !.pc = "score",
                 !.local = [riskFactors |-> factors]]

InitRisk ==
    /\ kv = SampleStore
    /\ \E factors \in RiskFactorInputs :
          req = [p \in Slots |-> IF p = 1 THEN ScoreCall(factors) ELSE Idle]
    /\ nextId = FirstRuntimeId
    /\ now = BootTime
    /\ settledFrom = Empty
    /\ ui = Dashboard

\* line 107
ScoreRisk(p) ==
    /\ req[p].op = "assessRisk" /\ req[p].pc = "score"
    /\ req' = [req EXCEPT ![p].pc = "band",
                          ![p].local = Spread(req[p].local,
                              [riskScore |->
                                  calculateRiskScore(req[p].local.riskFactors)])]
    /\ UNCHANGED <<kv, nextId, now, settledFrom, ui>>

\* line 108
BandRisk(p) ==
    /\ req[p].op = "assessRisk" /\ req[p].pc = "band"
    /\ req' = [req EXCEPT ![p].pc = "returned",
                          ![p].local = Spread(req[p].local,
                              [riskBand |->
                                  determineRiskBand(req[p].local.riskScore)])]
    /\ UNCHANGED <<kv, nextId, now, settledFrom, ui>>

NextRisk ==
    \/ \E p \in Slots : ScoreRisk(p)
    \/ \E p \in Slots : BandRisk(p)

SpecRisk == InitRisk /\ [][NextRisk]_vars

----------------------------------------------------------------------------
(* The extraction ingest path with the values the service can generate: one *)
(* document is uploaded; the extraction draws an amount and payment terms,  *)
(* the assessment draws its three ratios.                                   *)

\* genkit-service.tsx lines 44-97: a base amount plus less than 10000, and
\* the payment terms offered
GeneratedExtractions ==
    {15000, 24999, 30000, 30001, 50000, 50001, 74999} \X {30, 45, 60, 90}

\* lines 134, 136 and 137: the ends of the ranges of the ratios in hundredths
\* (Math.random() is below 1)
GeneratedFactors == {70, 99} \X {80, 99} \X {60, 89}

NextAssess ==
    \/ Tick
    \/ \E p \in Slots : Respond(p)
    \/ \E p \in Caller, body \in UploadBodies :
          nextId = FirstRuntimeId /\ ProcessAIStart(p, body)
    \/ \E p \in Slots, draw \in GeneratedExtractions : ProcessAIExtract(p, draw)
    \/ \E p \in Slots : ProcessAIExtractFails(p)
    \/ \E p \in Slots, draw \in GeneratedFactors : ProcessAIAssess(p, draw)
    \/ \E p \in Slots : ProcessAIAssessFails(p)
    \/ \E p \in Slots : ProcessAISetInvoice(p)
    \/ \E p \in Slots : ProcessAISetIndex(p)

SpecAssess == Init /\ [][NextAssess]_vars

----------------------------------------------------------------------------
(* The ledger: AcceptOffer, MarkPaid and the two listings, called one at a  *)
(* time by the owner; nothing is deleted out of band.                       *)

NextLedger ==
    \/ \E p \in Slots : Respond(p)
    \/ \E p \in Caller : IngestStart(p, CompleteBody)
    \/ \E p \in Slots : IngestSetInvoice(p)
    \/ \E p \in Slots : IngestSetIndex(p)
    \/ \E p \in Caller, invoiceId \in RequestIds(InvoicePrefix) :
          \E body \in AcceptBodies(invoiceId) : AcceptGet(p, invoiceId, body)
    \/ \E p \in Slots : AcceptSetInvoice(p)
    \/ \E p \in Slots : AcceptSetAdvance(p)
    \/ \E p \in Slots : AcceptSetIndex(p)
    \/ \E p \in Caller, advanceId \in RequestIds(AdvancePrefix) :
          MarkPaidGet(p, advanceId)
    \/ \E p \in Slots : MarkPaidSetAdvance(p)
    \/ \E p \in Slots : MarkPaidSetSettlement(p)
    \/ \E p \in Slots : MarkPaidSetIndex(p)
    \/ \E p \in Slots : StoreWriteFails(p)
    \/ \E p \in Caller : ListAdvancesScan(p)
    \/ \E p \in Slots : ListAdvancesGet(p)
    \/ \E p \in Slots : ListAdvancesReturn(p)
    \/ \E p \in Caller : ListSettlementsScan(p)
    \/ \E p \in Slots : ListSettlementsGet(p)
    \/ \E p \in Slots : ListSettlementsReturn(p)

SpecLedger == Init /\ [][NextLedger]_vars

----------------------------------------------------------------------------
(* Claims *)

\* C1: MarkPaid on an advance whose stored status is already paid is
\* rejected, and at most one Settlement derived from one advance is stored.
\* (No MarkPaid handler gets past its lookup holding an advance it read as
\* paid; no advance is the origin of two stored settlements.)
C1_MarkPaidOnPaidRejected ==
    /\ \A p \in Slots :
          (req[p].op = "markPaid" /\ Has(req[p].local, "advance"))
              => req[p].local.advance.status # "paid"
    /\ \A a \in KvIds(kv, AdvancePrefix) :
          Cardinality({s \in DOMAIN settledFrom :
              settledFrom[s] = a /\ KvHas(kv, SettlementPrefix, s)}) <= 1

\* C2: when the calls do not overlap, after any sequence of completed calls
\* every invoice stored as advanced is referenced by exactly one Advance.
C2_OneAdvancePerAdvancedInvoice ==
    Quiescent =>
        \A invoice \in Invoices :
            invoice.status = "advanced" =>
                Cardinality({a \in Advances : a.invoiceId = invoice.id}) = 1

\* C3: two AcceptOffer requests on one invoice that both read it as uploaded
\* (both read it before either wrote it) and have both ended, both succeeded
\* and each stored an Advance of its own with that invoiceId.
BothReadUploaded(p, q) ==
    /\ p # q
    /\ req[p].op = "accept" /\ req[q].op = "accept"
    /\ req[p].param = req[q].param
    /\ req[p].pc = "done" /\ req[q].pc = "done"
    /\ Has(req[p].local, "invoice") /\ Has(req[q].local, "invoice")
    /\ req[p].local.invoice.status = "uploaded"
    /\ req[q].local.invoice.status = "uploaded"

StoredOwnAdvance(p) ==
    /\ req[p].status = 200
    /\ Has(req[p].local, "advance")
    /\ KvHas(kv, AdvancePrefix, req[p].local.advance.id)
    /\ kv[Key(AdvancePrefix, req[p].local.advance.id)].invoiceId = req[p].param
    /\ KvHas(kv, UserAdvancePrefix, req[p].local.advance.id)

C3_ConcurrentAcceptsBothCreate ==
    \A p, q \in Slots :
        BothReadUploaded(p, q) =>
            /\ StoredOwnAdvance(p) /\ StoredOwnAdvance(q)
            /\ req[p].local.advance.id # req[q].local.advance.id
            /\ Cardinality({a \in Advances : a.invoiceId = req[p].param}) >= 2

C3_Witness == \E p, q \in Slots : BothReadUploaded(p, q)

\* C4: an AcceptOffer naming an invoiceId with no stored invoice record ends
\* at its lookup with 404, and that step leaves the store as it was.
C4_AcceptUnknownNotFound ==
    [][\A p \in Slots :
          (req[p].pc = "idle" /\ req'[p].op = "accept"
              /\ ~KvHas(kv, InvoicePrefix, req'[p].param))
          => (req'[p].pc = "done" /\ req'[p].status = 404 /\ kv' = kv)]_vars

C4_Witness ==
    \E p \in Slots :
        /\ req[p].op = "accept" /\ req[p].pc = "done" /\ req[p].status = 404
        /\ ~KvHas(kv, InvoicePrefix, req[p].param)

\* C5: a MarkPaid naming an advanceId with no stored advance record ends at
\* its lookup with 404, and that step leaves the store as it was.
C5_MarkPaidUnknownNotFound ==
    [][\A p \in Slots :
          (req[p].pc = "idle" /\ req'[p].op = "markPaid"
              /\ ~KvHas(kv, AdvancePrefix, req'[p].param))
          => (req'[p].pc = "done" /\ req'[p].status = 404 /\ kv' = kv)]_vars

C5_Witness ==
    \E p \in Slots :
        /\ req[p].op = "markPaid" /\ req[p].pc = "done" /\ req[p].status = 404
        /\ ~KvHas(kv, AdvancePrefix, req[p].param)

\* the fields the claim names that a request leaves out: of a manual entry,
\* those of its body; of an upload, the filename when it carries no file
NamedFields == {"amount", "buyer", "dueDate", "filename"}

MissesNamedField(r) ==
    IF r.op = "ingest" THEN \E f \in NamedFields : Falsy(r.body, f)
    ELSE ~Has(r.body, "file")

MissesRequiredField(r) ==
    IF r.op = "ingest" THEN \E f \in IngestFields : Falsy(r.body, f)
    ELSE ~Has(r.body, "file")

Rejected(r) == r.pc = "done" /\ r.status = 400

IngestArrives(p) ==
    req[p].pc = "idle" /\ req'[p].op \in {"ingest", "processAI"}

\* C6 as stated: an ingest request that leaves out amount, buyer, dueDate or
\* filename is rejected with 400 at once and the store is left as it was; one
\* that has all four is not rejected with 400.
C6_RejectedIffNamedFieldMissing ==
    [][\A p \in Slots :
          IngestArrives(p) =>
              IF MissesNamedField(req'[p])
              THEN Rejected(req'[p]) /\ kv' = kv
              ELSE ~Rejected(req'[p])]_vars

\* C6 as amended: a manual-entry request that leaves out filename, amount,
\* buyer, dueDate or riskBand (or gives a zero amount), and an upload with no
\* file, is rejected with 400 at once and the store is left as it was; a
\* manual-entry request with all five, and an upload with a file, is not
\* rejected with 400.
C6_RejectedIffRequiredFieldMissing ==
    [][\A p \in Slots :
          IngestArrives(p) =>
              IF MissesRequiredField(req'[p])
              THEN Rejected(req'[p]) /\ kv' = kv
              ELSE ~Rejected(req'[p])]_vars

C6_Witness ==
    /\ \E p \in Slots :
          /\ req[p].op = "ingest" /\ Rejected(req[p])
          /\ ~MissesNamedField(req[p]) /\ ~Has(req[p].body, "riskBand")
    /\ \E p \in Slots :
          /\ req[p].op = "ingest" /\ req[p].status = 200
          /\ ~MissesRequiredField(req[p])

\* C7: a stored invoice carries advancePercent, feePercent and advanceAmount,
\* all three, if its status is advanced, and none of them otherwise.
C7_OfferFieldsIffAdvanced ==
    \A invoice \in Invoices :
        IF invoice.status = "advanced"
        THEN OfferFields \subseteq DOMAIN invoice
        ELSE OfferFields \cap DOMAIN invoice = {}

\* C8: the stored status of an invoice is uploaded or advanced, never
\* offered, and an invoice stored as advanced stays stored as advanced.
C8_InvoiceStatusForward ==
    /\ [](\A invoice \in Invoices : invoice.status \in {"uploaded", "advanced"})
    /\ [][\A id \in KvIds(kv, InvoicePrefix) :
            kv[Key(InvoicePrefix, id)].status = "advanced"
                => /\ KvHas(kv', InvoicePrefix, id)
                   /\ kv'[Key(InvoicePrefix, id)].status = "advanced"]_vars

\* an AcceptOffer that read the invoice as advanced has written it again
C8_Witness ==
    \E p \in Slots :
        /\ req[p].op = "accept" /\ req[p].pc = "set_advance"
        /\ req[p].local.invoice.status = "advanced"
        /\ kv[Key(InvoicePrefix, req[p].param)].status = "advanced"

\* C9: a stored Advance has status active or paid; it is created active; a
\* write to it stores it as paid; once paid it stays paid; it is never
\* deleted.
C9_AdvanceStatus ==
    /\ [](\A a \in Advances : a.status \in {"active", "paid"})
    /\ [][/\ \A id \in KvIds(kv, AdvancePrefix) :
                /\ KvHas(kv', AdvancePrefix, id)
                /\ kv[Key(AdvancePrefix, id)].status = "paid"
                      => kv'[Key(AdvancePrefix, id)].status = "paid"
                /\ kv'[Key(AdvancePrefix, id)] # kv[Key(AdvancePrefix, id)]
                      => kv'[Key(AdvancePrefix, id)].status = "paid"
          /\ \A id \in KvIds(kv', AdvancePrefix) \ KvIds(kv, AdvancePrefix) :
                kv'[Key(AdvancePrefix, id)].status = "active"]_vars

\* an Advance created by AcceptOffer has been stored as paid, and a second
\* MarkPaid has written it again
C9_Witness ==
    \E p \in Slots :
        /\ req[p].op = "markPaid" /\ req[p].pc = "set_settlement"
        /\ req[p].param >= FirstRuntimeId
        /\ kv[Key(AdvancePrefix, req[p].param)].status = "paid"

\* C10: a stored invoice with status advanced has 0 < feePercent < 100,
\* 0 < advancePercent <= 100 and advanceAmount = floor(amount x
\* advancePercent / 100).
C10_AdvancedTermsValid ==
    \A invoice \in Invoices :
        invoice.status = "advanced" =>
            /\ OfferFields \subseteq DOMAIN invoice
            /\ 0 < invoice.feePercent /\ invoice.feePercent < 100 * 10
            /\ 0 < invoice.advancePercent /\ invoice.advancePercent <= 100 * 10
            /\ invoice.advanceAmount =
                  FloorDiv(invoice.amount * invoice.advancePercent, PercentScale)

\* C11: the settlement MarkPaid stores is computed from the stored advance
\* alone: feeAmount is the floor of invoiceAmount x feePercent / 100,
\* remainingAmount is invoiceAmount - advanceAmount - feeAmount (not a number,
\* stored as null, where the advance carries no advanceAmount),
\* settlementAmount equals remainingAmount, daysToPay is the ceiling of the
\* days from the advance's createdAt to the payment, and invoiceId, createdAt
\* and riskBand are the advance's.
C11_SettlementFromAdvance ==
    \A s \in DOMAIN settledFrom :
        KvHas(kv, SettlementPrefix, s) =>
            LET st == kv[Key(SettlementPrefix, s)]
                a == kv[Key(AdvancePrefix, settledFrom[s])]
                elapsed == st.paidDate - a.createdAt
            IN  /\ st.invoiceId = a.invoiceId
                /\ st.createdAt = a.createdAt
                /\ st.riskBand = a.riskBand
                /\ IF Has(a, "feePercent")
                   THEN /\ st.feeAmount * PercentScale
                              <= a.invoiceAmount * a.feePercent
                        /\ a.invoiceAmount * a.feePercent
                              < (st.feeAmount + 1) * PercentScale
                   ELSE st.feeAmount = NullNumber
                /\ IF Has(a, "feePercent") /\ Has(a, "advanceAmount")
                   THEN st.remainingAmount =
                            a.invoiceAmount - a.advanceAmount - st.feeAmount
                   ELSE st.remainingAmount = NullNumber
                /\ st.settlementAmount = st.remainingAmount
                /\ st.daysToPay * TicksPerDay >= elapsed
                /\ (st.daysToPay - 1) * TicksPerDay < elapsed

\* a settlement is stored for an advance whose invoice is not in the store,
\* paid part-way through a day
C11_Witness ==
    \E s \in DOMAIN settledFrom :
        /\ KvHas(kv, SettlementPrefix, s)
        /\ ~KvHas(kv, InvoicePrefix, kv[Key(SettlementPrefix, s)].invoiceId)
        /\ kv[Key(SettlementPrefix, s)].daysToPay * TicksPerDay
              > kv[Key(SettlementPrefix, s)].paidDate
                  - kv[Key(SettlementPrefix, s)].createdAt

\* C12: for every positive amount and every band of low, medium and high the
\* offer the calculator produces has advanceAmount + fee <= amount, that is,
\* a remainingAmount that is not negative.
C12_OfferWithinAmount ==
    (/\ ui.screen = "offer"
     /\ ui.invoice.amount > 0
     /\ ui.invoice.riskBand \in {"low", "medium", "high"})
        => /\ ui.offer.advanceAmount + ui.offer.fee <= ui.invoice.amount
           /\ ui.offer.remainingAmount >= 0

\* an offer of the low band that leaves a remainder of one
C12_Witness ==
    /\ ui.screen = "offer"
    /\ ui.invoice.riskBand = "low"
    /\ ui.invoice.amount > 0
    /\ ui.offer.advanceAmount + ui.offer.fee + 1 = ui.invoice.amount

\* C13: the calculator gives band low 90% and 2.5%, medium 85% and 3.0%, high
\* 80% and 3.5%, and any other band the medium row; advanceAmount and fee are
\* the floors of amount x percent / 100, netReceived is advanceAmount and
\* remainingAmount is amount - advanceAmount - fee; amount 42000 in band high
\* gives 33600, 1470 and 6930.
C13_OfferTable ==
    ui.screen = "offer" =>
        LET amount == ui.invoice.amount
            band == ui.invoice.riskBand
            o == ui.offer
        IN  /\ band = "low" => o.advancePercent = 900 /\ o.feePercent = 25
            /\ band = "medium" => o.advancePercent = 850 /\ o.feePercent = 30
            /\ band = "high" => o.advancePercent = 800 /\ o.feePercent = 35
            /\ band \notin {"low", "medium", "high"}
                  => o.advancePercent = 850 /\ o.feePercent = 30
            /\ o.advanceAmount * PercentScale <= amount * o.advancePercent
            /\ amount * o.advancePercent < (o.advanceAmount + 1) * PercentScale
            /\ o.fee * PercentScale <= amount * o.feePercent
            /\ amount * o.feePercent < (o.fee + 1) * PercentScale
            /\ o.netReceived = o.advanceAmount
            /\ o.remainingAmount = amount - o.advanceAmount - o.fee
            /\ (amount = 42000 /\ band = "high")
                  => /\ o.advanceAmount = 33600
                     /\ o.fee = 1470
                     /\ o.remainingAmount = 6930

\* the offer for amount 42000 in band high is on the screen
C13_Witness ==
    /\ ui.screen = "offer"
    /\ ui.invoice.amount = 42000
    /\ ui.invoice.riskBand = "high"

\* the offer on the screen is that of an invoice the simulation produced with
\* amount 25000 and a due date 59 days after the day of the upload
Amount25000Due59 ==
    /\ ui.screen = "offer"
    /\ Has(ui.invoice, "dueDate")
    /\ ui.invoice.amount = 25000
    /\ ui.invoice.dueDate = DateOf(ui.invoice.createdAt) + 59

\* C14 as stated: an invoice of amount 25000 due 59 days ahead is banded low
\* by the simulation, and its offer is 90%, 22500, 2.5%, 625, remainder 1875.
C14_Amount25000Due59BandedLow ==
    Amount25000Due59 =>
        /\ ui.invoice.riskBand = "low"
        /\ ui.offer.advancePercent = 900
        /\ ui.offer.advanceAmount = 22500
        /\ ui.offer.feePercent = 25
        /\ ui.offer.fee = 625
        /\ ui.offer.remainingAmount = 1875

\* C14 as amended: an invoice of amount 25000 due 59 days ahead is banded
\* high by the simulation (25000 is not below 25000, 59 is not below 45), and
\* its offer is 80%, 20000, 3.5%, 875, remainder 4125.
C14_Amount25000Due59BandedHigh ==
    Amount25000Due59 =>
        /\ ui.invoice.riskBand = "high"
        /\ ui.offer.advancePercent = 800
        /\ ui.offer.advanceAmount = 20000
        /\ ui.offer.feePercent = 35
        /\ ui.offer.fee = 875
        /\ ui.offer.remainingAmount = 4125

\* the offer for such an invoice is on the screen, and the request that would
\* accept it carries these terms
C14_Witness ==
    /\ Amount25000Due59
    /\ OfferBody(ui.invoice).advanceAmount = ui.offer.advanceAmount

BandRank(band) == IF band = "low" THEN 1 ELSE IF band = "medium" THEN 2 ELSE 3

\* C15: the banding of the simulation is monotonic with low < medium < high:
\* at the days-to-due of the invoice banded, no larger amount gets a lower
\* band, and at its amount no larger days-to-due gets a lower band. (An
\* invoice that carries aiProcessing was banded by the server's assessment,
\* not by the simulation.)
C15_BandingMonotonic ==
    (/\ ui.screen = "offer"
     /\ Has(ui.invoice, "dueDate")
     /\ ~Has(ui.invoice, "aiProcessing")) =>
        LET amount == ui.invoice.amount
            daysToDue == SimulatedDaysToDue(ui.invoice.dueDate,
                                            ui.invoice.createdAt)
            rank == BandRank(ui.invoice.riskBand)
        IN  /\ \A larger \in SimulatedAmounts :
                  larger >= amount
                      => BandRank(SimpleRiskBand(larger, daysToDue)) >= rank
            /\ \A later \in 0..90 :
                  later >= daysToDue
                      => BandRank(SimpleRiskBand(amount, later)) >= rank

\* an invoice banded medium is on the screen: there are bands below and above
C15_Witness ==
    /\ ui.screen = "offer"
    /\ Has(ui.invoice, "dueDate")
    /\ ~Has(ui.invoice, "aiProcessing")
    /\ ui.invoice.riskBand = "medium"

\* the time left to the due date of a displayed advance when the screen was
\* rendered, in ticks (negative once the due date's midnight has passed)
TicksToDue(i) == TimeOfDate(ui.advances[i].dueDate) - ui.renderedAt

\* C19 as stated: a paid advance is labelled paid whatever its dates; an
\* active one is labelled overdue exactly when dueDate < now, due soon
\* exactly when it is not overdue and 0 <= daysToDue <= 7, active otherwise.
C19_OverdueIffDuePassed ==
    ui.screen = "advances" =>
        \A i \in DOMAIN ui.advances :
            LET overdue == TicksToDue(i) < 0
                dueSoon == ~overdue /\ TicksToDue(i) <= 7 * TicksPerDay
            IN  IF ui.advances[i].status = "paid"
                THEN ui.badges[i] = "Paid"
                ELSE /\ ui.badges[i] = "Overdue" <=> overdue
                     /\ ui.badges[i] = "Due Soon" <=> dueSoon
                     /\ ui.badges[i] = "Active" <=> (~overdue /\ ~dueSoon)

\* C19 as amended: a paid advance is labelled paid whatever its dates; an
\* active one is labelled overdue exactly when daysToDue < 0, that is, when
\* a whole day or more has passed since dueDate; due soon exactly when it is
\* not overdue and daysToDue <= 7, which takes in a due date passed by less
\* than a day; active otherwise.
C19_OverdueIffWholeDayPassed ==
    ui.screen = "advances" =>
        \A i \in DOMAIN ui.advances :
            LET overdue == TicksToDue(i) <= -TicksPerDay
                dueSoon == ~overdue /\ TicksToDue(i) <= 7 * TicksPerDay
            IN  IF ui.advances[i].status = "paid"
                THEN ui.badges[i] = "Paid"
                ELSE /\ ui.badges[i] = "Overdue" <=> overdue
                     /\ ui.badges[i] = "Due Soon" <=> dueSoon
                     /\ ui.badges[i] = "Active" <=> (~overdue /\ ~dueSoon)

\* an active advance whose due date passed less than a day before is shown
C19_Witness ==
    /\ ui.screen = "advances"
    /\ \E i \in DOMAIN ui.advances :
          /\ ui.advances[i].status = "active"
          /\ TicksToDue(i) < 0
          /\ TicksToDue(i) > -TicksPerDay
          /\ ui.badges[i] = "Due Soon"

ListOps == {"listAdvances", "listSettlements"}

\* what a listing handler holds: the index entries it scanned, the prefix of
\* the records they name, and the records it has collected
ScannedKeys(r) ==
    IF r.op = "listAdvances" THEN r.local.advanceKeys ELSE r.local.settlementKeys

ListedPrefix(r) == IF r.op = "listAdvances" THEN AdvancePrefix ELSE SettlementPrefix

Listed(r) ==
    IF r.op = "listAdvances" THEN r.local.advances ELSE r.local.settlements

\* C16: a listing never answers with an error, and the step that takes up an
\* index entry adds the record it names when the record is in the store and
\* adds nothing when it is not; so a listing whose entries are all dangling
\* answers with the empty list.
C16_ListingsSkipDangling ==
    /\ [](\A p \in Slots :
            req[p].op \in ListOps =>
                /\ req[p].status \in {0, 200}
                /\ req[p].pc = "done" => req[p].status = 200)
    /\ [][\A p \in Slots :
            (/\ req[p].op \in ListOps
             /\ req[p].pc = "get"
             /\ req[p].local.next <= Len(ScannedKeys(req[p]))
             /\ req'[p] # req[p])
                => LET id == ScannedKeys(req[p])[req[p].local.next]
                   IN  /\ req'[p].op = req[p].op
                       /\ Listed(req'[p]) =
                            IF KvHas(kv, ListedPrefix(req[p]), id)
                            THEN Append(Listed(req[p]),
                                        kv[Key(ListedPrefix(req[p]), id)])
                            ELSE Listed(req[p])]_vars

\* a listing that scanned index entries, found none of their records and
\* answered 200 with the empty list
C16_Witness ==
    \E p \in Slots :
        /\ req[p].op \in ListOps
        /\ req[p].pc = "done"
        /\ req[p].status = 200
        /\ Len(ScannedKeys(req[p])) > 0
        /\ Listed(req[p]) = <<>>

\* C17: the advances of a ListAdvances response are in the order of their
\* createdAt, newest first, and the settlements of a ListSettlements
\* response in the order of their paidDate, newest first, whatever the order
\* in which the index was scanned.
C17_ListingsNewestFirst ==
    \A p \in Slots :
        (req[p].op \in ListOps /\ req[p].pc = "done") =>
            \A i, j \in DOMAIN Listed(req[p]) :
                i < j =>
                    IF req[p].op = "listAdvances"
                    THEN Listed(req[p])[i].createdAt >= Listed(req[p])[j].createdAt
                    ELSE Listed(req[p])[i].paidDate >= Listed(req[p])[j].paidDate

\* a response with two records whose index was scanned oldest first
C17_Witness ==
    \E p \in Slots :
        /\ req[p].op \in ListOps
        /\ req[p].pc = "done"
        /\ Len(Listed(req[p])) = 2
        /\ Listed(req[p])[1].id = ScannedKeys(req[p])[2]

\* the store operation of handler r threw
StoreFailed(r) == Has(r.local, "error")

LookupPrefix(r) == IF r.op = "accept" THEN InvoicePrefix ELSE AdvancePrefix

\* C18: a store failure during AcceptOffer or MarkPaid is answered with an
\* internal error (500), never with NotFound (404); 404 is answered only by
\* the step whose lookup completed and found no record under the id.
C18_StoreFailureIsInternalError ==
    /\ [](\A p \in Slots :
            req[p].op \in {"accept", "markPaid"} =>
                /\ StoreFailed(req[p]) => req[p].status = 500
                /\ req[p].status = 404 => ~StoreFailed(req[p]))
    /\ [][\A p \in Slots :
            (/\ req'[p].op \in {"accept", "markPaid"}
             /\ req'[p].status = 404
             /\ req[p] # req'[p])
                => /\ req[p].pc = "idle"
                   /\ ~KvHas(kv, LookupPrefix(req'[p]), req'[p].param)]_vars

\* the lookup of an id that has no record failed: the answer is 500
C18_Witness ==
    \E p \in Slots :
        /\ req[p].op \in {"accept", "markPaid"}
        /\ StoreFailed(req[p])
        /\ req[p].local.error.at = "get"
        /\ ~KvHas(kv, LookupPrefix(req[p]), req[p].param)
        /\ req[p].status = 500

\* handler r was interrupted between its two writes: the write of the index
\* entry threw after the primary record had been written
Interrupted(r) == StoreFailed(r) /\ r.local.error.at = "set_index"

\* the id of the record handler r creates, and the prefixes of the record
\* and of its index entry
CreatedId(r) ==
    IF r.op = "accept" THEN r.local.advance.id
    ELSE IF r.op = "markPaid" THEN r.local.settlement.id
    ELSE r.param

CreatedPrefix(r) ==
    IF r.op = "accept" THEN AdvancePrefix
    ELSE IF r.op = "markPaid" THEN SettlementPrefix
    ELSE InvoicePrefix

CreatedIndexPrefix(r) ==
    IF r.op = "accept" THEN UserAdvancePrefix
    ELSE IF r.op = "markPaid" THEN UserSettlementPrefix
    ELSE UserInvoicePrefix

IndexOf == [prefix \in {InvoicePrefix, AdvancePrefix, SettlementPrefix} |->
               IF prefix = InvoicePrefix THEN UserInvoicePrefix
               ELSE IF prefix = AdvancePrefix THEN UserAdvancePrefix
               ELSE UserSettlementPrefix]

\* the index entries whose primary record is not in the store
Dangling ==
    {<<prefix, id>> \in
        {InvoicePrefix, AdvancePrefix, SettlementPrefix} \X (0..(FirstRuntimeId + MaxIds)) :
            KvHas(kv, IndexOf[prefix], id) /\ ~KvHas(kv, prefix, id)}

\* C20 as stated: when a create operation is interrupted between its two
\* store writes, the store is left with an index entry that points at a
\* missing primary record.
C20_InterruptedLeavesDanglingIndex ==
    \A p \in Slots : Interrupted(req[p]) => Dangling # {}

\* C20 as amended: when a create operation is interrupted between its two
\* store writes, the store is left with the primary record and without an
\* index entry for it; no index entry points at a missing primary record.
C20_InterruptedLeavesUnindexedRecord ==
    /\ \A p \in Slots :
          Interrupted(req[p]) =>
              /\ KvHas(kv, CreatedPrefix(req[p]), CreatedId(req[p]))
              /\ ~KvHas(kv, CreatedIndexPrefix(req[p]), CreatedId(req[p]))
    /\ Dangling = {}

\* the creation of a settlement was interrupted between its two writes
C20_Witness ==
    \E p \in Slots : Interrupted(req[p]) /\ req[p].op = "markPaid"

\* C21: a settlement record, once in the store, stays there unchanged: no
\* step of an ingest, of AcceptOffer or of MarkPaid on any advance writes or
\* removes it.
C21_SettlementImmutable ==
    [][\A id \in KvIds(kv, SettlementPrefix) :
          /\ KvHas(kv', SettlementPrefix, id)
          /\ kv'[Key(SettlementPrefix, id)] = kv[Key(SettlementPrefix, id)]]_vars

\* two settlements that MarkPaid made from the same advance are both stored
C21_Witness ==
    \E s, t \in DOMAIN settledFrom :
        /\ s # t
        /\ settledFrom[s] = settledFrom[t]
        /\ KvHas(kv, SettlementPrefix, s)
        /\ KvHas(kv, SettlementPrefix, t)

\* the extraction or the risk assessment of handler r failed
ExtractionFailed(r) ==
    /\ r.op = "processAI"
    /\ \/ Has(r.local, "aiResult") /\ ~r.local.aiResult.success
       \/ Has(r.local, "riskAssessment") /\ ~r.local.riskAssessment.success

\* C22: an extraction ingest whose extraction or risk assessment failed is
\* answered with an error and has stored neither an invoice record nor an
\* index entry; the uploader that receives an error from the extraction
\* ingest goes on to the manual-entry request, and what follows the
\* manual-entry request is either the offer for an invoice that request
\* stored or an error on the screen.
C22_ExtractionFailureFallsBack ==
    /\ [](\A p \in Slots :
            ExtractionFailed(req[p]) =>
                /\ req[p].pc = "done" /\ req[p].status = 500
                /\ KvIds(kv, InvoicePrefix) = {}
                /\ KvIds(kv, UserInvoicePrefix) = {})
    /\ [][\A p \in Slots :
            (/\ req[p].op = "processAI" /\ req[p].pc = "done"
             /\ req[p].status # 200
             /\ req'[p] # req[p])
                => ui' = [screen |-> "upload", step |-> "fallback"]]_vars
    /\ [][(Has(ui, "step") /\ ui' # ui) =>
            \/ /\ ui'.screen = "offer"
               /\ KvHas(kv, InvoicePrefix, ui'.invoice.id)
               /\ kv[Key(InvoicePrefix, ui'.invoice.id)] = ui'.invoice
               /\ ~Has(ui'.invoice, "aiProcessing")
            \/ /\ ui'.screen = "upload"
               /\ Has(ui', "error")]_vars

\* the extraction ingest stored nothing, the uploader fell back, and the offer
\* for the invoice the fallback entered is on the screen
C22_Witness ==
    /\ ui.screen = "offer"
    /\ ~Has(ui.invoice, "aiProcessing")
    /\ Has(ui.invoice, "id")
    /\ Cardinality(KvIds(kv, InvoicePrefix)) = 1

\* handler r caught a failure of a store write that came after its first
\* write (the first write of AcceptOffer is that of the invoice, the first of
\* MarkPaid that of the advance)
FailedAfterFirstWrite(r) ==
    /\ StoreFailed(r)
    /\ \/ r.op = "accept" /\ r.local.error.at \in {"set_advance", "set_index"}
       \/ r.op = "markPaid"
             /\ r.local.error.at \in {"set_settlement", "set_index"}

\* C23: AcceptOffer and MarkPaid are atomic in effect under store failures: a
\* store write that fails after the operation's first write does not leave
\* the invoice stored as advanced with no advance that references it, nor the
\* advance stored as paid with no settlement created for it.
C23_FailedWriteLeavesNothingHalfDone ==
    \A p \in Slots :
        FailedAfterFirstWrite(req[p]) =>
            /\ req[p].op = "accept" =>
                  ~(/\ kv[Key(InvoicePrefix, req[p].param)].status = "advanced"
                    /\ \A a \in Advances : a.invoiceId # req[p].param)
            /\ req[p].op = "markPaid" =>
                  ~(/\ kv[Key(AdvancePrefix, req[p].param)].status = "paid"
                    /\ \A s \in KvIds(kv, SettlementPrefix) :
                          s \in DOMAIN settledFrom
                              => settledFrom[s] # req[p].param)

\* the fields of an invoice record that AcceptOffer sets
AcceptedFields == OfferFields \cup {"status"}

\* the index entries of the invoices in a store
InvoiceIndex(store) ==
    Restrict(store, {k \in DOMAIN store : k[1] = UserInvoicePrefix})

\* this step is one of an AcceptOffer
AcceptStep ==
    \E p \in Slots :
        req'[p] # req[p] /\ (req[p].op = "accept" \/ req'[p].op = "accept")

\* C24: AcceptOffer changes, in the invoice's primary record, only status,
\* advancePercent, feePercent and advanceAmount: every other field (id, owner,
\* filename, amount, buyer, dueDate, riskBand, createdAt) keeps its stored
\* value, and no step of AcceptOffer writes an invoice's index entry.
C24_AcceptFrame ==
    [][AcceptStep =>
          /\ \A id \in KvIds(kv, InvoicePrefix) :
                /\ KvHas(kv', InvoicePrefix, id)
                /\ Without(kv'[Key(InvoicePrefix, id)], AcceptedFields)
                       = Without(kv[Key(InvoicePrefix, id)], AcceptedFields)
          /\ KvIds(kv', InvoicePrefix) = KvIds(kv, InvoicePrefix)
          /\ InvoiceIndex(kv') = InvoiceIndex(kv)]_vars

\* an AcceptOffer has written the invoice it read, with the offer's terms
C24_Witness ==
    \E p \in Slots :
        /\ req[p].op = "accept" /\ req[p].pc = "set_advance"
        /\ kv[Key(InvoicePrefix, req[p].param)].status = "advanced"
        /\ Has(kv[Key(InvoicePrefix, req[p].param)], "advanceAmount")
        /\ req[p].local.invoice.status = "uploaded"
        /\ kv[Key(InvoicePrefix, req[p].param)] # req[p].local.invoice

\* the primary records of the invoices in a store
InvoiceRecords(store) ==
    Restrict(store, {k \in DOMAIN store : k[1] = InvoicePrefix})

\* this step is one of a MarkPaid
MarkPaidStep ==
    \E p \in Slots :
        req'[p] # req[p] /\ (req[p].op = "markPaid" \/ req'[p].op = "markPaid")

\* C25: MarkPaid changes no invoice record and, in an advance record, only the
\* status field; the invoice that a paid advance references keeps the status
\* it had before MarkPaid.
C25_MarkPaidFrame ==
    [][MarkPaidStep =>
          /\ InvoiceRecords(kv') = InvoiceRecords(kv)
          /\ KvIds(kv', AdvancePrefix) = KvIds(kv, AdvancePrefix)
          /\ \A id \in KvIds(kv, AdvancePrefix) :
                Without(kv'[Key(AdvancePrefix, id)], {"status"})
                    = Without(kv[Key(AdvancePrefix, id)], {"status"})]_vars

\* a MarkPaid has succeeded on an advance whose invoice is stored: the advance
\* is paid and the invoice still advanced
C25_Witness ==
    \E p \in Slots :
        /\ req[p].op = "markPaid" /\ req[p].pc = "done" /\ req[p].status = 200
        /\ kv[Key(AdvancePrefix, req[p].param)].status = "paid"
        /\ req[p].local.advance.status = "active"
        /\ KvHas(kv, InvoicePrefix, req[p].local.advance.invoiceId)
        /\ kv[Key(InvoicePrefix, req[p].local.advance.invoiceId)].status
               = "advanced"

\* the score the claim describes for these factors, before the clamp, in
\* units of 10^-8: 0.8 less the amount's and the due date's deductions,
\* times each ratio
DescribedScore(f) ==
    (80 - (IF f.amount > 50000 THEN 10 ELSE IF f.amount > 30000 THEN 5 ELSE 0)
        - (IF f.daysToDue > 60 THEN 10 ELSE IF f.daysToDue > 45 THEN 5 ELSE 0))
        * f.buyerProfile * f.paymentHistory * f.industryRisk

\* C26: for every amount, every days-to-due and every ratio in (0, 1] the
\* score returned is within [0.1, 1.0] and is 0.8, minus 0.10 if amount >
\* 50000 else 0.05 if amount > 30000, minus 0.10 if days-to-due > 60 else 0.05
\* if days-to-due > 45, times each ratio, then clamped; the band is low iff
\* score >= 0.8, medium iff 0.6 <= score < 0.8, high otherwise.
C26_ScoreClampedAndBanded ==
    \A p \in Slots :
        (req[p].op = "assessRisk" /\ Has(req[p].local, "riskScore")) =>
            LET f == req[p].local.riskFactors
                score == req[p].local.riskScore
                described == DescribedScore(f)
            IN  /\ 10 * score >= ScoreUnit
                /\ score <= ScoreUnit
                /\ score = IF 10 * described < ScoreUnit THEN ScoreUnit \div 10
                           ELSE IF described > ScoreUnit THEN ScoreUnit
                           ELSE described
                /\ Has(req[p].local, "riskBand") =>
                      LET band == req[p].local.riskBand
                      IN  /\ band = "low" <=> 10 * score >= 8 * ScoreUnit
                          /\ band = "medium" <=>
                                (/\ 10 * score >= 6 * ScoreUnit
                                 /\ 10 * score < 8 * ScoreUnit)
                          /\ band = "high" <=> 10 * score < 6 * ScoreUnit

\* a score below 0.1 as computed was returned as 0.1 and banded high
C26_Witness ==
    \E p \in Slots :
        /\ req[p].op = "assessRisk" /\ req[p].pc = "returned"
        /\ 10 * DescribedScore(req[p].local.riskFactors) < ScoreUnit
        /\ 10 * req[p].local.riskScore = ScoreUnit
        /\ req[p].local.riskBand = "high"

\* the invoices that the extraction ingest path has built: those stored, and
\* those a handler is about to store
AssessedInvoices ==
    {inv \in Invoices : Has(inv, "aiProcessing")}
        \cup {req[p].local.invoice : p \in
                 {q \in Slots : /\ req[q].op = "processAI"
                                /\ Has(req[q].local, "invoice")}}

\* C30: the risk assessment of the extraction ingest path never assigns the
\* band low: the industry-risk ratio it generates is below 0.9 and the other
\* two ratios are below 1, so the score stays below 0.8 for every amount and
\* due date, and every invoice created through that path has band medium or
\* high.
C30_ExtractionPathNeverLow ==
    \A inv \in AssessedInvoices :
        LET assessment == inv.aiProcessing.riskAssessment
        IN  /\ assessment.riskFactors.industryRisk < 90
            /\ assessment.riskFactors.buyerProfile < 100
            /\ assessment.riskFactors.paymentHistory < 100
            /\ 10 * assessment.riskScore < 8 * ScoreUnit
            /\ assessment.riskBand = inv.riskBand
            /\ inv.riskBand \in {"medium", "high"}

\* the invoice with the best factors the path can generate (smallest amount,
\* shortest terms, highest ratios) is stored, and is banded medium
C30_Witness ==
    \E inv \in Invoices :
        /\ Has(inv, "aiProcessing")
        /\ inv.amount = 15000
        /\ inv.aiProcessing.riskAssessment.riskFactors.daysToDue = 30
        /\ inv.aiProcessing.riskAssessment.riskFactors.buyerProfile = 99
        /\ inv.aiProcessing.riskAssessment.riskFactors.paymentHistory = 99
        /\ inv.aiProcessing.riskAssessment.riskFactors.industryRisk = 89
        /\ inv.riskBand = "medium"

\* the advances that AcceptOffer created (createSampleData made the others)
AcceptedAdvances == {a \in Advances : a.id >= FirstRuntimeId}

\* C27: after any sequence of operations, every advance created by AcceptOffer
\* has the advanceAmount and feePercent currently stored on the invoice it
\* references, and its invoiceAmount, buyer, dueDate and riskBand are that
\* invoice's amount, buyer, dueDate and riskBand.
C27_AdvanceAgreesWithInvoice ==
    Quiescent =>
        \A a \in AcceptedAdvances :
            /\ KvHas(kv, InvoicePrefix, a.invoiceId)
            /\ LET invoice == kv[Key(InvoicePrefix, a.invoiceId)]
               IN  /\ Restrict(a, {"advanceAmount", "feePercent"})
                          = Restrict(invoice, {"advanceAmount", "feePercent"})
                   /\ a.invoiceAmount = invoice.amount
                   /\ a.buyer = invoice.buyer
                   /\ a.dueDate = invoice.dueDate
                   /\ a.riskBand = invoice.riskBand

\* the settlements that MarkPaid created and that have a record or an index
\* entry in the store
CreatedSettlements ==
    {s \in DOMAIN settledFrom :
        KvHas(kv, SettlementPrefix, s) \/ KvHas(kv, UserSettlementPrefix, s)}

\* C28: in every reachable state, in the middle of a MarkPaid and after a
\* failed one too, every settlement created by MarkPaid comes from an advance
\* whose stored status is paid: the advance is stored as paid before the
\* settlement's record and index entry are written.
C28_SettlementOnlyOfPaidAdvance ==
    \A s \in CreatedSettlements :
        /\ KvHas(kv, AdvancePrefix, settledFrom[s])
        /\ kv[Key(AdvancePrefix, settledFrom[s])].status = "paid"

\* a MarkPaid failed at its last write: its settlement is stored, and the
\* advance it read as active is stored as paid
C28_Witness ==
    \E p \in Slots :
        /\ req[p].op = "markPaid"
        /\ StoreFailed(req[p]) /\ req[p].local.error.at = "set_index"
        /\ req[p].local.settlement.id \in CreatedSettlements
        /\ settledFrom[req[p].local.settlement.id] = req[p].param
        /\ req[p].local.advance.status = "active"
        /\ kv[Key(AdvancePrefix, req[p].param)].status = "paid"

\* the records a finished listing returns
ListedRecords(r) == {Listed(r)[i] : i \in DOMAIN Listed(r)}

\* the keys under which advances, settlements and their index entries are held
LedgerKeys(store) ==
    {k \in DOMAIN store :
        k[1] \in {AdvancePrefix, UserAdvancePrefix,
                  SettlementPrefix, UserSettlementPrefix}}

\* the ids that have both a record and an index entry of the owner
Indexed(prefix, indexPrefix) == KvIds(kv, prefix) \cap KvIds(kv, indexPrefix)

\* C29: every advance created by an AcceptOffer that returned success, and
\* every settlement created by a MarkPaid that returned success, is returned
\* by every later ListAdvances, respectively ListSettlements, of its owner; an
\* advance stays in ListAdvances after it is marked paid.  In three parts: an
\* operation that returns success has stored the record and its index entry;
\* no step removes either; and a listing returns every record that has both,
\* whatever its status.
C29_CreatedRecordsAreListed ==
    /\ [](\A p \in Slots :
            (req[p].pc = "done" /\ req[p].status = 200) =>
                /\ req[p].op = "accept" =>
                      req[p].local.advance.id
                          \in Indexed(AdvancePrefix, UserAdvancePrefix)
                /\ req[p].op = "markPaid" =>
                      req[p].local.settlement.id
                          \in Indexed(SettlementPrefix, UserSettlementPrefix)
                /\ req[p].op = "listAdvances" =>
                      \A id \in Indexed(AdvancePrefix, UserAdvancePrefix) :
                          kv[Key(AdvancePrefix, id)] \in ListedRecords(req[p])
                /\ req[p].op = "listSettlements" =>
                      \A id \in Indexed(SettlementPrefix, UserSettlementPrefix) :
                          kv[Key(SettlementPrefix, id)] \in ListedRecords(req[p]))
    /\ [][LedgerKeys(kv) \subseteq LedgerKeys(kv')]_vars

\* a listing returned an advance that AcceptOffer created and MarkPaid has
\* since marked paid
C29_Witness ==
    \E p \in Slots :
        /\ req[p].op = "listAdvances"
        /\ req[p].pc = "done" /\ req[p].status = 200
        /\ \E a \in ListedRecords(req[p]) :
              /\ a.id >= FirstRuntimeId
              /\ a.status = "paid"
              /\ \E s \in DOMAIN settledFrom :
                    /\ settledFrom[s] = a.id
                    /\ s \in Indexed(SettlementPrefix, UserSettlementPrefix)

====
